---------------------------- MODULE Spec2Model ----------------------------
(***************************************************************************)
(* Retrieval and reranking pipeline of rag.py:                             *)
(*   EnhancedParentPageAggregator  (parent page aggregation with dedup)    *)
(*   LLMReranker                   (batched, concurrent judge scoring,     *)
(*                                  response parsing cascade, score fusion)*)
(*   VectorRetriever, HybridRetriever (search, aggregate, rerank, top_n)   *)
(*   CrossPageTextSplitter         (cross-page, excel and pptx chunking)   *)
(*   the ingest/embed and retrieval/rag workflows of __main__              *)
(*                                                                         *)
(* Numbers.  Judge scores, distances and the fusion weight are kept in     *)
(* tenths (the integer 7 stands for 0.7).  A vector similarity is an exact *)
(* rational <<num, den>> with den > 0.  A combined_score is kept in units  *)
(* of 1/10000, which is what round(x, 4) produces.                         *)
(***************************************************************************)
EXTENDS Integers, Sequences, FiniteSets, TLC

VARIABLES
    pc,                   \* position of the operation under way
    parsed_reports,       \* EnhancedParentPageAggregator.parsed_reports
    chunk_results,        \* argument of aggregate_to_parent_pages
    parent_results,       \* value returned by aggregate_to_parent_pages
    documents,            \* argument of rerank_documents
    documents_batch_size, \* argument of rerank_documents
    llm_weight,           \* argument of rerank_documents (tenths)
    batch_results,        \* per batch: the future of process_batch in the pool
    llm_scores,           \* process_batch local, per batch
    judge_path,           \* per batch: how _rerank_batch came to its scores
    vector_similarity,    \* process_batch local, per input document
    out_of_order,         \* history: a batch finished ahead of an earlier one
    all_results,          \* value returned by rerank_documents
    judge,                \* what self.llm.invoke did in a _rerank_batch call
    expected_count,       \* len(texts) of that call
    rankings,             \* outcome of _parse_rankings_response in that call
    batch_scores,         \* value returned by that call
    vectorstore,          \* VectorRetriever.vectorstore / GraphState.vectorstore
    llm_reranking_sample_size, \* argument of HybridRetriever.retrieve
    top_n,                \* argument of HybridRetriever.retrieve
    reranked_results,     \* HybridRetriever.retrieve local
    retrieved,            \* value returned by HybridRetriever.retrieve
    judge_calls,          \* history: number of self.llm.invoke calls of the judge
    document_data,        \* argument of split_document
    chunk_size,           \* CrossPageTextSplitter.chunk_size
    text_chunks,          \* value returned by text_splitter.split_text
    chunk_documents,      \* value returned by split_document
    user_files,           \* what parsing and chunking make of each given file
    state_docs,           \* GraphState.docs after ingest_node
    final_context,        \* GraphState.final_context after retrieval_node
    final_answer,         \* GraphState.final_answer after rag_node
    failure               \* what the caller is told went wrong, if anything

vars == <<pc, parsed_reports, chunk_results, parent_results, documents,
          documents_batch_size, llm_weight, batch_results, llm_scores,
          judge_path, vector_similarity, out_of_order, all_results, judge,
          expected_count, rankings, batch_scores, vectorstore,
          llm_reranking_sample_size, top_n, reranked_results, retrieved, judge_calls,
          document_data, chunk_size, text_chunks, chunk_documents,
          user_files,
          state_docs,
          final_context, final_answer, failure>>

aggVars == <<parsed_reports, chunk_results, parent_results>>
rerankVars == <<documents, documents_batch_size, llm_weight, batch_results,
                llm_scores, judge_path, vector_similarity, out_of_order,
                all_results>>
parseVars == <<judge, expected_count, rankings, batch_scores>>
retrieveVars == <<vectorstore, llm_reranking_sample_size, top_n,
                  reranked_results, retrieved, judge_calls>>
splitVars == <<document_data, chunk_size, text_chunks, chunk_documents>>
flowVars == <<user_files, state_docs, final_context, final_answer, failure>>

-----------------------------------------------------------------------------
(* Bounds of the model *)

MaxHits == 3        \* longest list of hits given to the aggregator
MaxDocs == 3        \* longest candidate list given to the reranker
MaxBatchSize == 2   \* largest documents_batch_size of the reranker runs
MaxCount == 3       \* largest expected_count given to the parser
MaxTokens == 3      \* most number-like tokens in one judge response
MaxRankings == 4    \* most entries of a block_rankings list

(* Program constants *)

MaxWorkers == 3     \* ThreadPoolExecutor(max_workers=3)
NeutralScore == 5   \* the 0.5 of the padding and of the exception fallback

None == "None"

-----------------------------------------------------------------------------
(* Generic helpers *)

Min(a, b) == IF a <= b THEN a ELSE b
Max(a, b) == IF a >= b THEN a ELSE b

SeqsUpTo(S, n) == UNION {[1..k -> S] : k \in 0..n}

Range(s) == {s[i] : i \in 1..Len(s)}

\* Python's sorted() on a list of integers
Sorted(s) == SortSeq(s, LAMBDA a, b : a < b)

\* Python's s[:n]
Take(s, n) == SubSeq(s, 1, Min(n, Len(s)))

-----------------------------------------------------------------------------
(* EnhancedParentPageAggregator *)

NoLabel == -1    \* a text segment that carries no "[Page n]" prefix

\* Page texts: "" and " " are the texts whose strip() is empty.
IsBlank(t) == t \in {"", " "}

\* The pages of all reports, in the iteration order of
\* _build_page_content_map (reports in order, pages in order).
RECURSIVE FlattenPages(_)
FlattenPages(reports) ==
    IF reports = <<>> THEN <<>>
    ELSE Head(reports).pages \o FlattenPages(Tail(reports))

\* page_map[page_num] = text, a later entry overwriting an earlier one.
\* The result is the dict as a function over the page numbers present.
BuildPageContentMap(reports) ==
    LET flat == FlattenPages(reports)
        keys == {flat[i].page : i \in 1..Len(flat)}
        last(p) == CHOOSE i \in 1..Len(flat) :
                      /\ flat[i].page = p
                      /\ \A j \in (i+1)..Len(flat) : flat[j].page # p
    IN  [p \in keys |-> flat[last(p)].text]

\* self.page_content_map.get(page_num, '')
PageContent(page_map, page_num) ==
    IF page_num \in DOMAIN page_map THEN page_map[page_num] ELSE ""

\* _get_chunk_page_coverage: the page_range of the metadata (in the order it
\* is written there) for a chunk marked spans_pages, else the chunk's page.
GetChunkPageCoverage(chunk_result) ==
    IF chunk_result.metadata.spans_pages /\ chunk_result.metadata.has_page_range
    THEN chunk_result.metadata.page_range
    ELSE <<chunk_result.page>>

\* The parts "[Page n]\n<content>" of the pages whose content is not blank,
\* in the order of page_numbers.
RECURSIVE CombinedParts(_, _)
CombinedParts(page_map, page_numbers) ==
    IF page_numbers = <<>> THEN <<>>
    ELSE LET n == Head(page_numbers)
             c == PageContent(page_map, n)
             rest == CombinedParts(page_map, Tail(page_numbers))
         IN  IF IsBlank(c) THEN rest
             ELSE <<[label |-> n, content |-> c]>> \o rest

\* _get_combined_page_content joining the pages in the order of the hit's
\* page_range: the sorted() of the loop is missing.
GetCombinedPageContentUnsorted(page_map, page_numbers) ==
    IF Len(page_numbers) = 1
    THEN <<[label |-> NoLabel, content |-> PageContent(page_map, page_numbers[1])]>>
    ELSE CombinedParts(page_map, page_numbers)

\* _get_combined_page_content.  A text is the list of its segments; the
\* segments of a multi-page text are joined by the page-break marker.
GetCombinedPageContent(page_map, page_numbers) ==
    IF Len(page_numbers) = 1
    THEN <<[label |-> NoLabel, content |-> PageContent(page_map, page_numbers[1])]>>
    ELSE CombinedParts(page_map, Sorted(page_numbers))

\* tuple(sorted(page_coverage))
PageCombinationKey(page_coverage) == Sorted(page_coverage)

\* The dict built for a chunk whose page combination is new.
ParentResult(page_map, chunk_result) ==
    LET page_coverage == GetChunkPageCoverage(chunk_result)
    IN  [text          |-> GetCombinedPageContent(page_map, page_coverage),
         page          |-> page_coverage[1],
         page_range    |-> IF Len(page_coverage) > 1 THEN page_coverage ELSE <<>>,
         spans_pages   |-> Len(page_coverage) > 1,
         distance      |-> chunk_result.distance,
         source_file   |-> chunk_result.source_file,
         document_type |-> chunk_result.document_type,
         metadata      |-> chunk_result.metadata]

\* Keeps every chunk as a candidate: the seen-set test is missing.
RECURSIVE AggregateLoopNoDedup(_, _, _, _)
AggregateLoopNoDedup(page_map, chunks, seen, acc) ==
    IF chunks = <<>> THEN acc
    ELSE AggregateLoopNoDedup(page_map, Tail(chunks), seen,
                              Append(acc, ParentResult(page_map, Head(chunks))))

\* The loop of aggregate_to_parent_pages: seen is seen_page_combinations,
\* acc is parent_results.
RECURSIVE AggregateLoop(_, _, _, _)
AggregateLoop(page_map, chunks, seen, acc) ==
    IF chunks = <<>> THEN acc
    ELSE LET c == Head(chunks)
             key == PageCombinationKey(GetChunkPageCoverage(c))
         IN  IF key \notin seen
             THEN AggregateLoop(page_map, Tail(chunks), seen \cup {key},
                                Append(acc, ParentResult(page_map, c)))
             ELSE AggregateLoop(page_map, Tail(chunks), seen, acc)

\* aggregate_to_parent_pages returning its candidates last first
AggregateToParentPagesReversed(page_map, chunks) ==
    LET acc == AggregateLoop(page_map, chunks, {}, <<>>)
    IN  [i \in 1..Len(acc) |-> acc[Len(acc) + 1 - i]]

\* aggregate_to_parent_pages
AggregateToParentPages(page_map, chunks) ==
    AggregateLoop(page_map, chunks, {}, <<>>)

-----------------------------------------------------------------------------
(* Inputs of the aggregator runs *)

Pages == {3, 4}
HitDistances == {1, 3}
SourceFiles == {"a.pdf", "b.pdf"}

\* Metadata as the chunker writes it: a single-page chunk carries neither
\* key, a cross-page chunk carries spans_pages and the joined page_range.
SinglePageMetadata ==
    [spans_pages |-> FALSE, has_page_range |-> FALSE, page_range |-> <<>>]
CrossPageMetadata(r) ==
    [spans_pages |-> TRUE, has_page_range |-> TRUE, page_range |-> r]

PageRanges == {r \in [1..2 -> Pages] : r[1] # r[2]}

HitSet ==
    {[text |-> "chunk", page |-> p, distance |-> d, source_file |-> f,
      document_type |-> "pdf", metadata |-> SinglePageMetadata]
        : p \in Pages, d \in HitDistances, f \in SourceFiles}
    \cup
    {[text |-> "chunk", page |-> r[1], distance |-> d, source_file |-> f,
      document_type |-> "pdf", metadata |-> CrossPageMetadata(r)]
        : r \in PageRanges, d \in HitDistances, f \in SourceFiles}

Reports ==
    << [source_file |-> "a.pdf",
        pages |-> << [page |-> 3, text |-> "a3"], [page |-> 4, text |-> "a4"] >>],
       [source_file |-> "b.pdf",
        pages |-> << [page |-> 3, text |-> "b3"], [page |-> 4, text |-> " "] >>] >>

\* The parsed_reports an aggregator is constructed with: both documents,
\* the first document alone, or none.
ReportLists == {Reports, <<Reports[1]>>, <<>>}

-----------------------------------------------------------------------------
(* LLMReranker: the judge response and its parsing *)

(* A judge response is described by what each parsing step finds in it:    *)
(*   whole          what json.loads + RetrievalRankingMultipleBlocks make  *)
(*                  of the whole text:                                     *)
(*                    "valid"      a JSON object that fits the schema      *)
(*                    "nonmapping" valid JSON that is not an object, such  *)
(*                                 as  0.7  or  [0.9, 0.1]  (TypeError)    *)
(*                    "badschema"  a JSON object that fails validation     *)
(*                                 (ValidationError, a ValueError)         *)
(*                    "invalid"    not JSON (JSONDecodeError)              *)
(*   block_rankings the relevance_score list of a "valid" whole text       *)
(*   patterns       for each of the three json_patterns: whether re.search *)
(*                  matches, whether the extract parses and validates, and *)
(*                  its relevance_score list                               *)
(*   tokens         the maximal [0-9.]+ runs of the text in order; labeled *)
(*                  marks a run that follows "score" or "relevance",       *)
(*                  float_ok is FALSE for a run float() rejects ("1.2.3")  *)

NoMatch == [match |-> FALSE, parses |-> FALSE, block_rankings |-> <<>>]
BadMatch == [match |-> TRUE, parses |-> FALSE, block_rankings |-> <<>>]
GoodMatch(s) == [match |-> TRUE, parses |-> TRUE, block_rankings |-> s]

NoPatterns == <<NoMatch, NoMatch, NoMatch>>

\* max(0.0, min(1.0, x)) on tenths
Clamp01(x) == Max(0, Min(10, x))

\* The first of the json_patterns, in list order, whose match parses;
\* 0 when there is none.
FirstParsingPattern(patterns) ==
    IF \E i \in 1..Len(patterns) : patterns[i].match /\ patterns[i].parses
    THEN CHOOSE i \in 1..Len(patterns) :
            /\ patterns[i].match /\ patterns[i].parses
            /\ \A j \in 1..(i-1) : ~(patterns[j].match /\ patterns[j].parses)
    ELSE 0

\* re.findall(r'(?:score|relevance)[:\s]*([0-9.]+)', ...)
RECURSIVE ScoreMatches(_)
ScoreMatches(tokens) ==
    IF tokens = <<>> THEN <<>>
    ELSE IF Head(tokens).labeled
         THEN <<Head(tokens)>> \o ScoreMatches(Tail(tokens))
         ELSE ScoreMatches(Tail(tokens))

\* potential_scores: the runs of re.findall(r'[0-9.]+', ...) that float()
\* accepts and that lie in [0, 1]
RECURSIVE PotentialScores(_)
PotentialScores(tokens) ==
    IF tokens = <<>> THEN <<>>
    ELSE IF Head(tokens).float_ok /\ 0 <= Head(tokens).value /\ Head(tokens).value <= 10
         THEN <<Head(tokens).value>> \o PotentialScores(Tail(tokens))
         ELSE PotentialScores(Tail(tokens))

\* while len(scores) < expected_count: scores.append(0.5)
PadScores(scores, count) ==
    scores \o [i \in 1..(count - Len(scores)) |-> NeutralScore]

\* Lines 1532-1559: labeled numbers, then bare numbers, then padding.
\* float() of a rejected labeled run raises ValueError out of the handler.
FallbackScores(tokens, count) ==
    LET score_matches == Take(ScoreMatches(tokens), count)
    IN  IF \E i \in 1..Len(score_matches) : ~score_matches[i].float_ok
        THEN [raised |-> TRUE, exc |-> "ValueError", strategy |-> "regex", scores |-> <<>>]
        ELSE LET scores == [i \in 1..Len(score_matches) |-> Clamp01(score_matches[i].value)]
                 filled == IF Len(scores) < count
                           THEN scores \o Take(PotentialScores(tokens), count - Len(scores))
                           ELSE scores
             IN  [raised |-> FALSE, exc |-> None, strategy |-> "regex",
                  scores |-> PadScores(filled, count)]

\* _parse_rankings_response: the scores of the rankings it returns, or the
\* exception that leaves it.
ParseRankingsResponse(response, count) ==
    CASE response.whole = "valid" ->
            [raised |-> FALSE, exc |-> None, strategy |-> "direct",
             scores |-> response.block_rankings]
      [] response.whole = "nonmapping" ->
            [raised |-> TRUE, exc |-> "TypeError", strategy |-> "direct",
             scores |-> <<>>]
      [] OTHER ->
            LET k == FirstParsingPattern(response.patterns)
            IN  IF k # 0
                THEN [raised |-> FALSE, exc |-> None, strategy |-> "pattern",
                      scores |-> response.patterns[k].block_rankings]
                ELSE FallbackScores(response.tokens, count)

\* _rerank_batch for a non-empty batch of count texts: the judge model
\* either raises or answers (reply); any exception gives [0.5] * len(texts).
RerankBatch(reply, count) ==
    IF reply.invoke_raises
    THEN [i \in 1..count |-> NeutralScore]
    ELSE LET parsed == ParseRankingsResponse(reply.response, count)
         IN  IF parsed.raised
             THEN [i \in 1..count |-> NeutralScore]
             ELSE parsed.scores

-----------------------------------------------------------------------------
(* LLMReranker: similarity, fusion and ordering *)

\* Rationals <<num, den>> with den > 0
RatLE(a, b) == a[1] * b[2] <= b[1] * a[2]
RatMin(a, b) == IF RatLE(a, b) THEN a ELSE b
RatMax(a, b) == IF RatLE(a, b) THEN b ELSE a

\* round(num/den, 4) in units of 1/10000 for den > 0: the nearest multiple,
\* a tie going to the even one.
Round4(num, den) ==
    LET n == num * 10000
        q == n \div den
        r == n % den
    IN  IF 2 * r < den THEN q
        ELSE IF 2 * r > den THEN q + 1
        ELSE IF q % 2 = 0 THEN q ELSE q + 1

\* The transform d / (1 + d), which grows with the distance.
VectorSimilarityGrowing(distance) ==
    [raised |-> FALSE, value |-> <<Max(0, distance), 10 + Max(0, distance)>>]

\* max(0.0, min(1.0, 1.0 / (1.0 + distance))) for a distance in tenths;
\* the division raises ZeroDivisionError when 1.0 + distance is 0.
VectorSimilarity(distance) ==
    LET d == 10 + distance
    IN  IF d = 0
        THEN [raised |-> TRUE, value |-> <<>>]
        ELSE LET quotient == IF d > 0 THEN <<10, d>> ELSE <<-10, -d>>
             IN  [raised |-> FALSE,
                  value |-> RatMax(<<0, 1>>, RatMin(<<1, 1>>, quotient))]

\* The two weights exchanged.
CombinedScoreSwapped(weight, llm_score, similarity) ==
    Round4((10 - weight) * llm_score * similarity[2] + weight * 10 * similarity[1],
           100 * similarity[2])

\* round(llm_weight * llm_score + vector_weight * vector_similarity, 4)
\* with vector_weight = 1 - llm_weight; weight and llm_score in tenths.
CombinedScore(weight, llm_score, similarity) ==
    Round4(weight * llm_score * similarity[2] + (10 - weight) * 10 * similarity[1],
           100 * similarity[2])

\* doc.copy() with the three score keys set
DocWithScore(doc, llm_score, combined) ==
    [llm_score |-> llm_score, relevance_score |-> llm_score,
     combined_score |-> combined] @@ doc

\* The input record when process_batch writes the score keys into the record
\* itself (doc_with_score = doc): it is the record with the scores.
DocumentAfterBatchAliased(doc, doc_with_score) == doc_with_score

\* The input record after process_batch has scored it: doc.copy() makes a
\* new dict and the three keys are set on that copy, so the record passed
\* in keeps the keys and values it had.
DocumentAfterBatch(doc, doc_with_score) == doc

\* doc_batches: the number of batches and the documents of batch b
NumBatches(n, size) == (n + size - 1) \div size
BatchOf(docs, size, b) ==
    SubSeq(docs, (b - 1) * size + 1, Min(b * size, Len(docs)))

\* process_batch: zip(batch, llm_scores) pairs the first
\* min(len(batch), len(llm_scores)) documents with their scores (scores is
\* llm_scores).
ProcessBatch(batch, scores, weight) ==
    LET k == Min(Len(batch), Len(scores))
        sims == [i \in 1..k |-> VectorSimilarity(batch[i].distance)]
    IN  IF \E i \in 1..k : sims[i].raised
        THEN [raised |-> TRUE, results |-> <<>>,
              similarities |-> [i \in 1..k |-> IF sims[i].raised THEN <<>> ELSE sims[i].value]]
        ELSE [raised |-> FALSE,
              results |-> [i \in 1..k |->
                              DocWithScore(batch[i], scores[i],
                                  CombinedScore(weight, scores[i], sims[i].value))],
              similarities |-> [i \in 1..k |-> sims[i].value]]

\* Insertion that puts x ahead of the records of equal combined_score.
RECURSIVE InsertBeforeEqual(_, _)
InsertBeforeEqual(sorted, x) ==
    IF sorted = <<>> THEN <<x>>
    ELSE IF Head(sorted).combined_score > x.combined_score
         THEN <<Head(sorted)>> \o InsertBeforeEqual(Tail(sorted), x)
         ELSE <<x>> \o sorted

\* Insertion of x behind every record whose combined_score is at least x's.
RECURSIVE InsertDescending(_, _)
InsertDescending(sorted, x) ==
    IF sorted = <<>> THEN <<x>>
    ELSE IF Head(sorted).combined_score >= x.combined_score
         THEN <<Head(sorted)>> \o InsertDescending(Tail(sorted), x)
         ELSE <<x>> \o sorted

\* all_results.sort(key=lambda x: x['combined_score'], reverse=True):
\* a stable sort, equal keys keep their order.
RECURSIVE SortByCombinedScore(_, _)
SortByCombinedScore(records, sorted) ==
    IF records = <<>> THEN sorted
    ELSE SortByCombinedScore(Tail(records), InsertDescending(sorted, Head(records)))

\* all_results.extend(batch) over batch_results, in batch order
RECURSIVE ExtendAll(_)
ExtendAll(results) ==
    IF results = <<>> THEN <<>>
    ELSE Head(results) \o ExtendAll(Tail(results))

-----------------------------------------------------------------------------
(* Inputs of the reranker and parser runs *)

Token(v, l) == [value |-> v, labeled |-> l, float_ok |-> TRUE]
BadToken(l) == [value |-> 0, labeled |-> l, float_ok |-> FALSE]

TextResponse(kind, toks) ==
    [whole |-> kind, block_rankings |-> <<>>, patterns |-> NoPatterns,
     tokens |-> toks]
JsonResponse(scores) ==
    [whole |-> "valid", block_rankings |-> scores, patterns |-> NoPatterns,
     tokens |-> <<>>]
PatternResponse(pats, toks) ==
    [whole |-> "invalid", block_rankings |-> <<>>, patterns |-> pats,
     tokens |-> toks]

Raises == [invoke_raises |-> TRUE, response |-> TextResponse("invalid", <<>>)]
Answers(r) == [invoke_raises |-> FALSE, response |-> r]

\* relevance_score values a JSON answer may carry: pydantic accepts any float
JsonScores == {-5, 3, 8, 20}
\* numbers a text may carry: the regexes capture no sign
TokenValues == {3, 8, 20}

Tokens == {Token(v, l) : v \in TokenValues, l \in BOOLEAN}
            \cup {BadToken(l) : l \in BOOLEAN}

\* The third pattern \{.*?\} stops at the first closing brace, so what it
\* extracts validates only as an object with an empty block_rankings list.
PatternOutcomes ==
    LET lists == SeqsUpTo({3, 20}, 2)
        fenced == {NoMatch, BadMatch} \cup {GoodMatch(s) : s \in lists}
    IN  {<<p1, p2, p3>> : p1 \in fenced, p2 \in fenced,
                          p3 \in {NoMatch, BadMatch, GoodMatch(<<>>)}}

ParseResponses ==
    {JsonResponse(s) : s \in SeqsUpTo(JsonScores, MaxRankings)}
    \cup {TextResponse(k, t) : k \in {"nonmapping", "badschema", "invalid"},
                               t \in SeqsUpTo(Tokens, MaxTokens)}
    \cup {PatternResponse(p, t) : p \in PatternOutcomes,
                                  t \in {<<>>, <<Token(8, TRUE)>>}}

\* The answers given to a batch of n documents in the reranker runs: JSON
\* with n scores, with one score too few, with one too many, text without
\* JSON, and JSON that is not an object.
BatchResponses(n) ==
    {JsonResponse(s) : s \in [1..n -> {3, 20}]}
    \cup {JsonResponse([i \in 1..(n-1) |-> 3]), JsonResponse([i \in 1..(n+1) |-> 3])}
    \cup {TextResponse("invalid", <<>>), TextResponse("invalid", <<Token(8, TRUE)>>)}
    \cup {TextResponse("nonmapping", <<Token(8, FALSE)>>)}

Weights == {0, 7, 10}
Distances == {0, 30}

\* Candidates as the aggregator hands them over; page tells them apart.
DocLists(distances) ==
    {[i \in 1..Len(ds) |-> [text |-> <<[label |-> NoLabel, content |-> "a3"]>>,
                            page |-> i, distance |-> ds[i]]]
        : ds \in SeqsUpTo(distances, MaxDocs)}

-----------------------------------------------------------------------------
(* State before an operation is under way *)

NotParsed == [raised |-> FALSE, exc |-> None, strategy |-> None, scores |-> <<>>]

IdleAggregator ==
    /\ parsed_reports = Reports
    /\ chunk_results = <<>>
    /\ parent_results = <<>>

IdleReranker ==
    /\ documents = <<>>
    /\ documents_batch_size = 1
    /\ llm_weight = 7
    /\ batch_results = <<>>
    /\ llm_scores = <<>>
    /\ judge_path = <<>>
    /\ vector_similarity = <<>>
    /\ out_of_order = FALSE
    /\ all_results = <<>>

IdleParser ==
    /\ judge = Raises
    /\ expected_count = 0
    /\ rankings = NotParsed
    /\ batch_scores = <<>>

\* self.vectorstore is None
NoStore == [attached |-> FALSE, index |-> <<>>]

IdleRetriever ==
    /\ vectorstore = NoStore
    /\ llm_reranking_sample_size = 0
    /\ top_n = 0
    /\ reranked_results = <<>>
    /\ retrieved = <<>>
    /\ judge_calls = 0

IdleSplitter ==
    /\ document_data = [document_type |-> "pdf", pages |-> <<>>]
    /\ chunk_size = 0
    /\ text_chunks = <<>>
    /\ chunk_documents = <<>>

IdleWorkflow ==
    /\ user_files = <<>>
    /\ state_docs = <<>>
    /\ final_context = <<>>
    /\ final_answer = None
    /\ failure = None

-----------------------------------------------------------------------------
(* aggregate_to_parent_pages *)

InitAggregate ==
    /\ pc = "aggregate"
    /\ parsed_reports \in ReportLists
    /\ chunk_results \in SeqsUpTo(HitSet, MaxHits)
    /\ parent_results = <<>>
    /\ IdleReranker
    /\ IdleParser
    /\ IdleRetriever
    /\ IdleSplitter
    /\ IdleWorkflow

Aggregate ==
    /\ pc = "aggregate"
    /\ parent_results' =
          AggregateToParentPages(BuildPageContentMap(parsed_reports), chunk_results)
    /\ pc' = "aggregated"
    /\ UNCHANGED <<parsed_reports, chunk_results>>
    /\ UNCHANGED rerankVars
    /\ UNCHANGED parseVars
    /\ UNCHANGED <<retrieveVars, splitVars, flowVars>>

NextAggregate == Aggregate

SpecAggregate == InitAggregate /\ [][NextAggregate]_vars

-----------------------------------------------------------------------------
(* rerank_documents *)

Pending == [status |-> "pending", results |-> <<>>]

InitRerank(distances) ==
    /\ pc = "rerank"
    /\ documents \in DocLists(distances)
    /\ documents_batch_size \in 1..MaxBatchSize
    /\ llm_weight \in Weights
    /\ batch_results = <<>>
    /\ llm_scores = <<>>
    /\ judge_path = <<>>
    /\ vector_similarity = <<>>
    /\ out_of_order = FALSE
    /\ all_results = <<>>
    /\ IdleAggregator
    /\ IdleParser
    /\ IdleRetriever
    /\ IdleSplitter
    /\ IdleWorkflow

\* if not documents: return []
RerankEmpty ==
    /\ pc = "rerank"
    /\ documents = <<>>
    /\ all_results' = <<>>
    /\ pc' = "done"
    /\ UNCHANGED <<documents, documents_batch_size, llm_weight, batch_results,
                   llm_scores, judge_path, vector_similarity, out_of_order>>
    /\ UNCHANGED aggVars
    /\ UNCHANGED parseVars
    /\ UNCHANGED <<retrieveVars, splitVars, flowVars>>

\* doc_batches is built and executor.map submits one task per batch.
Submit ==
    /\ pc = "rerank"
    /\ documents # <<>>
    /\ LET nb == NumBatches(Len(documents), documents_batch_size)
       IN  /\ batch_results' = [b \in 1..nb |-> Pending]
           /\ llm_scores' = [b \in 1..nb |-> <<>>]
           /\ judge_path' = [b \in 1..nb |-> "pending"]
    /\ vector_similarity' = [i \in 1..Len(documents) |-> <<>>]
    /\ pc' = "pool"
    /\ UNCHANGED <<documents, documents_batch_size, llm_weight, out_of_order,
                   all_results>>
    /\ UNCHANGED aggVars
    /\ UNCHANGED parseVars
    /\ UNCHANGED <<retrieveVars, splitVars, flowVars>>

\* A batch has a worker when fewer than max_workers unfinished batches are
\* ahead of it in the queue.
HasWorker(b) ==
    Cardinality({a \in 1..(b-1) : batch_results[a].status = "pending"}) < MaxWorkers

PathOf(j, count) ==
    IF j.invoke_raises THEN "invoke_raised"
    ELSE LET parsed == ParseRankingsResponse(j.response, count)
         IN  IF parsed.raised THEN parsed.exc ELSE parsed.strategy

\* A worker runs process_batch on batch b to its end; j is what the judge
\* does for this batch.
RunBatch(b, j) ==
    /\ pc = "pool"
    /\ b \in 1..Len(batch_results)
    /\ batch_results[b].status = "pending"
    /\ HasWorker(b)
    /\ LET batch == BatchOf(documents, documents_batch_size, b)
           first == (b - 1) * documents_batch_size
           scores == RerankBatch(j, Len(batch))
           out == ProcessBatch(batch, scores, llm_weight)
       IN  /\ llm_scores' = [llm_scores EXCEPT ![b] = scores]
           /\ judge_path' = [judge_path EXCEPT ![b] = PathOf(j, Len(batch))]
           /\ vector_similarity' =
                 [i \in 1..Len(documents) |->
                     IF i > first /\ i - first <= Len(out.similarities)
                     THEN out.similarities[i - first]
                     ELSE vector_similarity[i]]
           /\ batch_results' = [batch_results EXCEPT ![b] =
                 [status |-> IF out.raised THEN "raised" ELSE "done",
                  results |-> out.results]]
           /\ documents' =
                 [i \in 1..Len(documents) |->
                     IF i > first /\ i - first <= Len(out.results)
                     THEN DocumentAfterBatch(documents[i], out.results[i - first])
                     ELSE documents[i]]
    /\ out_of_order' = (out_of_order \/
          \E a \in 1..(b-1) : batch_results[a].status = "pending")
    /\ UNCHANGED <<pc, documents_batch_size, llm_weight, all_results>>
    /\ UNCHANGED aggVars
    /\ UNCHANGED parseVars
    /\ UNCHANGED <<retrieveVars, splitVars, flowVars>>

\* The batch results collected as the batches finish (as_completed in place
\* of executor.map): a batch that overtook an earlier one comes first.
ReturnAsCompleted ==
    /\ pc = "pool"
    /\ \A b \in 1..Len(batch_results) : batch_results[b].status # "pending"
    /\ IF \E b \in 1..Len(batch_results) : batch_results[b].status = "raised"
       THEN /\ pc' = "raised"
            /\ UNCHANGED all_results
       ELSE /\ pc' = "done"
            /\ all_results' =
                  SortByCombinedScore(
                      ExtendAll([b \in 1..Len(batch_results) |->
                                    IF out_of_order
                                    THEN batch_results[Len(batch_results) + 1 - b].results
                                    ELSE batch_results[b].results]),
                      <<>>)
    /\ UNCHANGED <<documents, documents_batch_size, llm_weight, batch_results,
                   llm_scores, judge_path, vector_similarity, out_of_order>>
    /\ UNCHANGED aggVars
    /\ UNCHANGED parseVars
    /\ UNCHANGED <<retrieveVars, splitVars, flowVars>>

\* list(executor.map(...)) yields the batch results in batch order and
\* re-raises a batch's exception; otherwise the results are concatenated,
\* sorted and returned.
Return ==
    /\ pc = "pool"
    /\ \A b \in 1..Len(batch_results) : batch_results[b].status # "pending"
    /\ IF \E b \in 1..Len(batch_results) : batch_results[b].status = "raised"
       THEN /\ pc' = "raised"
            /\ UNCHANGED all_results
       ELSE /\ pc' = "done"
            /\ all_results' =
                  SortByCombinedScore(
                      ExtendAll([b \in 1..Len(batch_results) |-> batch_results[b].results]),
                      <<>>)
    /\ UNCHANGED <<documents, documents_batch_size, llm_weight, batch_results,
                   llm_scores, judge_path, vector_similarity, out_of_order>>
    /\ UNCHANGED aggVars
    /\ UNCHANGED parseVars
    /\ UNCHANGED <<retrieveVars, splitVars, flowVars>>

Judges(n) == {Raises} \cup {Answers(r) : r \in BatchResponses(n)}

RunSomeBatch ==
    \E b \in 1..Len(batch_results) :
        \E j \in Judges(Len(BatchOf(documents, documents_batch_size, b))) :
            RunBatch(b, j)

Init == InitRerank(Distances)

Next == RerankEmpty \/ Submit \/ RunSomeBatch \/ Return

Spec == Init /\ [][Next]_vars

-----------------------------------------------------------------------------
(* process_batch on its own, for a batch of two documents whose scores are
   given *)

MaxDistance == 12   \* largest distance (tenths) of the scoring runs

FusionScores == {-5, 0, 3, 5, 10, 20}
FusionWeights == {0, 3, 7, 10}

InitFusion ==
    /\ pc = "score"
    /\ documents \in
          {<<[text |-> <<[label |-> NoLabel, content |-> "a3"]>>,
              page |-> 1, distance |-> d1],
             [text |-> <<[label |-> NoLabel, content |-> "a4"]>>,
              page |-> 2, distance |-> d2]>>
              : d1 \in 0..MaxDistance, d2 \in 0..MaxDistance}
    /\ documents_batch_size = 2
    /\ llm_weight \in FusionWeights
    /\ batch_results = <<Pending>>
    /\ llm_scores \in {<< <<s1, s2>> >> : s1 \in FusionScores, s2 \in FusionScores}
    /\ judge_path = <<"direct">>
    /\ vector_similarity = <<<<>>, <<>>>>
    /\ out_of_order = FALSE
    /\ all_results = <<>>
    /\ IdleAggregator
    /\ IdleParser
    /\ IdleRetriever
    /\ IdleSplitter
    /\ IdleWorkflow

\* The loop of process_batch over zip(batch, llm_scores)
ScoreBatch ==
    /\ pc = "score"
    /\ LET out == ProcessBatch(documents, llm_scores[1], llm_weight)
       IN  /\ vector_similarity' = out.similarities
           /\ batch_results' =
                 <<[status |-> IF out.raised THEN "raised" ELSE "done",
                    results |-> out.results]>>
    /\ pc' = "scored"
    /\ UNCHANGED <<documents, documents_batch_size, llm_weight, llm_scores,
                   judge_path, out_of_order, all_results>>
    /\ UNCHANGED aggVars
    /\ UNCHANGED parseVars
    /\ UNCHANGED <<retrieveVars, splitVars, flowVars>>

NextFusion == ScoreBatch

SpecFusion == InitFusion /\ [][NextFusion]_vars

-----------------------------------------------------------------------------
(* _rerank_batch on its own *)

InitParse ==
    /\ pc = "invoke"
    /\ expected_count \in 1..MaxCount
    /\ judge = Raises
    /\ rankings = NotParsed
    /\ batch_scores = <<>>
    /\ IdleAggregator
    /\ IdleReranker
    /\ IdleRetriever
    /\ IdleSplitter
    /\ IdleWorkflow

\* self.llm.invoke raises: the handler returns [0.5] * len(texts)
InvokeRaises ==
    /\ pc = "invoke"
    /\ judge' = Raises
    /\ batch_scores' = RerankBatch(Raises, expected_count)
    /\ pc' = "returned"
    /\ UNCHANGED <<expected_count, rankings>>
    /\ UNCHANGED aggVars
    /\ UNCHANGED rerankVars
    /\ UNCHANGED <<retrieveVars, splitVars, flowVars>>

\* self.llm.invoke returns a response
InvokeAnswers ==
    /\ pc = "invoke"
    /\ \E r \in ParseResponses : judge' = Answers(r)
    /\ pc' = "parse"
    /\ UNCHANGED <<expected_count, rankings, batch_scores>>
    /\ UNCHANGED aggVars
    /\ UNCHANGED rerankVars
    /\ UNCHANGED <<retrieveVars, splitVars, flowVars>>

\* _parse_rankings_response runs and _rerank_batch returns
ParseAndReturn ==
    /\ pc = "parse"
    /\ rankings' = ParseRankingsResponse(judge.response, expected_count)
    /\ batch_scores' = RerankBatch(judge, expected_count)
    /\ pc' = "returned"
    /\ UNCHANGED <<judge, expected_count>>
    /\ UNCHANGED aggVars
    /\ UNCHANGED rerankVars
    /\ UNCHANGED <<retrieveVars, splitVars, flowVars>>

NextParse == InvokeRaises \/ InvokeAnswers \/ ParseAndReturn

SpecParse == InitParse /\ [][NextParse]_vars

-----------------------------------------------------------------------------
(* Properties *)

\* The set of pages a hit resolves to, and the set a candidate covers
HitPages(h) ==
    IF h.metadata.spans_pages /\ h.metadata.has_page_range
    THEN Range(h.metadata.page_range) ELSE {h.page}
CandidatePages(c) == IF c.spans_pages THEN Range(c.page_range) ELSE {c.page}

\* The first hit, in input order, that resolves to the pages of hit h
FirstHitLike(h) ==
    CHOOSE g \in 1..Len(chunk_results) :
        /\ HitPages(chunk_results[g]) = HitPages(chunk_results[h])
        /\ \A e \in 1..(g-1) : HitPages(chunk_results[e]) # HitPages(chunk_results[h])

\* C1: in one aggregate_to_parent_pages call no two returned candidates cover
\* the same set of pages; the hits that resolve to one page set give exactly
\* one candidate, which carries the distance of the first such hit in input
\* order; and every candidate stems from a hit.
C1_DedupFirstSeen ==
    pc = "aggregated" =>
        /\ \A i, j \in 1..Len(parent_results) :
              i # j => CandidatePages(parent_results[i]) # CandidatePages(parent_results[j])
        /\ \A h \in 1..Len(chunk_results) :
              \E i \in 1..Len(parent_results) :
                  /\ CandidatePages(parent_results[i]) = HitPages(chunk_results[h])
                  /\ parent_results[i].distance = chunk_results[FirstHitLike(h)].distance
        /\ \A i \in 1..Len(parent_results) :
              \E h \in 1..Len(chunk_results) :
                  CandidatePages(parent_results[i]) = HitPages(chunk_results[h])

\* Two hits on pages [3,4] with distances 0.1 then 0.3 have been aggregated
\* to one candidate of distance 0.1.
C1_Witness ==
    /\ pc = "aggregated"
    /\ Len(chunk_results) = 2
    /\ HitPages(chunk_results[1]) = {3, 4}
    /\ HitPages(chunk_results[2]) = {3, 4}
    /\ chunk_results[1].distance = 1
    /\ chunk_results[2].distance = 3
    /\ Len(parent_results) = 1
    /\ parent_results[1].distance = 1

\* The batch of document i and the records returned for document i
BatchNumber(i) == ((i - 1) \div documents_batch_size) + 1
PositionInBatch(i) == i - (BatchNumber(i) - 1) * documents_batch_size
RecordsOf(i) == {k \in 1..Len(all_results) : all_results[k].page = i}

\* C2: every batch of n candidates receives exactly n scores whatever the
\* judge answered, and rerank_documents returns exactly one record for each
\* input candidate.
C2_ExactlyNScores ==
    pc = "done" =>
        /\ \A b \in 1..Len(llm_scores) :
              Len(llm_scores[b]) = Len(BatchOf(documents, documents_batch_size, b))
        /\ Len(all_results) = Len(documents)
        /\ \A i \in 1..Len(documents) : Cardinality(RecordsOf(i)) = 1

\* C3: rerank_documents returns its records in descending combined_score
\* order, records of equal combined_score in the order their candidates had
\* in the input, whatever the batch size and the order the batches finish in.
C3_SortedStable ==
    pc = "done" =>
        \A i, j \in 1..Len(all_results) :
            i < j =>
                /\ all_results[i].combined_score >= all_results[j].combined_score
                /\ all_results[i].combined_score = all_results[j].combined_score
                      => all_results[i].page < all_results[j].page

\* A run whose batches finished out of order has returned records of two
\* different batches with equal combined_score, and records of different
\* combined_score.
C3_Witness ==
    /\ pc = "done"
    /\ out_of_order
    /\ \E i, j \in 1..Len(all_results) :
          /\ i < j
          /\ all_results[i].combined_score = all_results[j].combined_score
          /\ BatchNumber(all_results[i].page) # BatchNumber(all_results[j].page)
    /\ \E i, j \in 1..Len(all_results) :
          all_results[i].combined_score > all_results[j].combined_score

\* C4: every judge score attached to a returned record (llm_score and
\* relevance_score) lies in [0,1], whichever parsing path produced it.
C4_JudgeScoreInUnitInterval ==
    pc = "done" =>
        \A k \in 1..Len(all_results) :
            /\ 0 <= all_results[k].llm_score /\ all_results[k].llm_score <= 10
            /\ all_results[k].relevance_score = all_results[k].llm_score

\* C5: for every weight in [0,1], every distance and every judge response the
\* combined_score of every returned record lies in [0,1].
C5_CombinedInUnitInterval ==
    pc = "done" =>
        \A k \in 1..Len(all_results) :
            /\ 0 <= all_results[k].combined_score
            /\ all_results[k].combined_score <= 10000

\* C6: with llm_weight = 1 a record's combined_score is its judge score
\* rounded to 4 places whatever its distance; with llm_weight = 0 it is its
\* vector similarity 1 / (1 + distance) rounded to 4 places whatever its
\* judge score.
C6_WeightExtremes ==
    pc = "scored" =>
        \A k \in 1..Len(batch_results[1].results) :
            LET r == batch_results[1].results[k]
            IN  /\ llm_weight = 10 => r.combined_score = 1000 * r.llm_score
                /\ llm_weight = 0 => r.combined_score = Round4(10, 10 + r.distance)

\* With weight 1 a record of distance 0.5 and judge score 0.3 has the
\* combined_score 0.3, next to a record of another distance.
C6_Witness ==
    /\ pc = "scored"
    /\ llm_weight = 10
    /\ Len(batch_results[1].results) = 2
    /\ batch_results[1].results[1].distance = 5
    /\ batch_results[1].results[1].llm_score = 3
    /\ batch_results[1].results[1].combined_score = 3000
    /\ batch_results[1].results[2].distance = 12

\* C7: the distance-to-similarity transform is monotone non-increasing: for
\* distances d1 < d2, similarity(d1) >= similarity(d2); similarity(0) = 1;
\* every similarity lies in [0,1].
C7_SimilarityMonotone ==
    pc = "scored" =>
        /\ \A i, j \in 1..Len(documents) :
              documents[i].distance < documents[j].distance
                  => RatLE(vector_similarity[j], vector_similarity[i])
        /\ \A i \in 1..Len(documents) :
              /\ vector_similarity[i][2] > 0
              /\ 0 <= vector_similarity[i][1]
              /\ vector_similarity[i][1] <= vector_similarity[i][2]
              /\ documents[i].distance = 0
                    => vector_similarity[i][1] = vector_similarity[i][2]

\* Two documents of distances 0 and 1.0 have been scored: similarity 1 for
\* the first and 1/2 for the second.
C7_Witness ==
    /\ pc = "scored"
    /\ documents[1].distance = 0
    /\ documents[2].distance = 10
    /\ vector_similarity[1][1] = vector_similarity[1][2]
    /\ 2 * vector_similarity[2][1] = vector_similarity[2][2]


\* A batch whose judge call raised or whose answer no JSON strategy parsed
BatchFailed(b) ==
    judge_path[b] \in {"invoke_raised", "regex", "TypeError", "ValueError"}

\* C8: if the judge call of a batch raises or returns text that cannot be
\* parsed, rerank_documents still returns normally with a record for every
\* candidate: 0.5 for each member of a batch whose call raised, the scores
\* the judge gave for the members of the other batches, and no exception
\* reaches the caller.
C8_BatchFailureIsolated ==
    (pc \in {"done", "raised"} /\ \E b \in 1..Len(judge_path) : BatchFailed(b)) =>
        /\ pc = "done"
        /\ Len(all_results) = Len(documents)
        /\ \A i \in 1..Len(documents) :
              \E k \in 1..Len(all_results) :
                  /\ all_results[k].page = i
                  /\ judge_path[BatchNumber(i)] = "invoke_raised"
                        => all_results[k].llm_score = NeutralScore
                  /\ ~BatchFailed(BatchNumber(i))
                        => all_results[k].llm_score =
                              llm_scores[BatchNumber(i)][PositionInBatch(i)]

\* The scores the chain of strategies yields when it is followed to its
\* end: the whole response as JSON, the three JSON patterns in order, then
\* the labeled numbers float() accepts, the bare numbers in [0,1] and the
\* padding with 0.5.
RECURSIVE UsableLabeled(_)
UsableLabeled(tokens) ==
    IF tokens = <<>> THEN <<>>
    ELSE IF Head(tokens).labeled /\ Head(tokens).float_ok
         THEN <<Max(0, Min(10, Head(tokens).value))>> \o UsableLabeled(Tail(tokens))
         ELSE UsableLabeled(Tail(tokens))

RECURSIVE UsableBare(_)
UsableBare(tokens) ==
    IF tokens = <<>> THEN <<>>
    ELSE IF Head(tokens).float_ok /\ Head(tokens).value \in 0..10
         THEN <<Head(tokens).value>> \o UsableBare(Tail(tokens))
         ELSE UsableBare(Tail(tokens))

ChainScores(response, count) ==
    IF response.whole = "valid" THEN response.block_rankings
    ELSE IF \E i \in 1..3 : response.patterns[i].match /\ response.patterns[i].parses
    THEN LET first == CHOOSE i \in 1..3 :
                        /\ response.patterns[i].match /\ response.patterns[i].parses
                        /\ \A j \in 1..(i-1) :
                              ~(response.patterns[j].match /\ response.patterns[j].parses)
         IN  response.patterns[first].block_rankings
    ELSE LET labeled == Take(UsableLabeled(response.tokens), count)
             bare == Take(UsableBare(response.tokens), count - Len(labeled))
             found == labeled \o bare
         IN  found \o [i \in 1..(count - Len(found)) |-> NeutralScore]

\* C9: the judge response is parsed by a chain tried strictly in order
\* (whole response as JSON, fenced JSON, bare {...} span, labeled numbers,
\* bare numbers in [0,1], padding with 0.5); the scores returned are those
\* of the first strategy that succeeds, and the final padding step always
\* succeeds, so the parse returns rankings for every response.
C9_FirstSuccessChain ==
    (pc = "returned" /\ ~judge.invoke_raises) =>
        /\ ~rankings.raised
        /\ rankings.scores = ChainScores(judge.response, expected_count)
        /\ batch_scores = rankings.scores

\* C10: when the judge's answer for a batch of three carries the scores s1
\* and s3 of the first and third member and none for the second, the batch
\* scores are [s1, 0.5, s3].
C10_MissingScorePadded ==
    (pc = "returned" /\ expected_count = 3 /\ ~judge.invoke_raises) =>
        \A s1, s3 \in {3, 8} :
            judge.response \in
                {JsonResponse(<<s1, s3>>),
                 TextResponse("invalid", <<Token(s1, TRUE), Token(s3, TRUE)>>)}
            => batch_scores = <<s1, NeutralScore, s3>>


-----------------------------------------------------------------------------
(* HybridRetriever.retrieve *)

MaxTopN == 3        \* largest top_n of the retrieval runs

\* The entry of the vector index under which a hit with these values is
\* found: a Document whose metadata carries every key the chunker writes,
\* and the score the index gives it for the query.
StoredDocument(h) ==
    [page_content |-> h.text, score |-> h.distance,
     metadata |-> [has_page |-> TRUE, page |-> h.page,
                   has_chunk |-> TRUE, chunk |-> 2,
                   source_file |-> h.source_file,
                   document_type |-> h.document_type,
                   spans_pages |-> h.metadata.spans_pages,
                   has_page_range |-> h.metadata.has_page_range,
                   page_range |-> h.metadata.page_range]]

\* A Document stored without the keys page and chunk (the fields page and
\* chunk of the record are never read when has_page, has_chunk are FALSE).
BareDocument ==
    [page_content |-> "chunk", score |-> 1,
     metadata |-> [has_page |-> FALSE, page |-> NoLabel,
                   has_chunk |-> FALSE, chunk |-> NoLabel,
                   source_file |-> "a.pdf", document_type |-> "pdf",
                   spans_pages |-> FALSE, has_page_range |-> FALSE,
                   page_range |-> <<>>]]

\* The result record read with doc.metadata['page'], doc.metadata['chunk']
HitOfDocumentUndefaulted(doc) ==
    [text |-> doc.page_content, page |-> doc.metadata.page,
     chunk |-> doc.metadata.chunk, distance |-> doc.score,
     source_file |-> doc.metadata.source_file,
     document_type |-> doc.metadata.document_type, metadata |-> doc.metadata]

\* The result record retrieve builds for (doc, score): metadata.get('page', 0)
\* and metadata.get('chunk', 1); float(score) is the score itself.
HitOfDocument(doc) ==
    [text |-> doc.page_content,
     page |-> IF doc.metadata.has_page THEN doc.metadata.page ELSE 0,
     chunk |-> IF doc.metadata.has_chunk THEN doc.metadata.chunk ELSE 1,
     distance |-> doc.score,
     source_file |-> doc.metadata.source_file,
     document_type |-> doc.metadata.document_type,
     metadata |-> doc.metadata]

\* VectorRetriever.retrieve without its "if not self.vectorstore" guard: the
\* search is called on None.
VectorRetrieverRetrieveUnguarded(store, top_k) ==
    [raised |-> ~store.attached,
     results |-> [i \in 1..Len(Take(store.index, top_k)) |->
                     HitOfDocument(Take(store.index, top_k)[i])]]

\* VectorRetriever.retrieve: store.index is what similarity_search_with_score
\* has for the query, nearest first; the first k of them are returned by
\* the index and one result record is appended for each, in that order.
VectorRetrieverRetrieve(store, top_k) ==
    IF ~store.attached
    THEN [raised |-> FALSE, results |-> <<>>]
    ELSE LET docs_with_scores == Take(store.index, top_k)
         IN  [raised |-> FALSE,
              results |-> [i \in 1..Len(docs_with_scores) |->
                              HitOfDocument(docs_with_scores[i])]]

\* rerank_documents as one call; judges[b] is what the judge does for batch
\* b.  calls counts the self.llm.invoke calls: every submitted batch runs.
RerankDocuments(candidates, size, weight, judges) ==
    IF candidates = <<>>
    THEN [raised |-> FALSE, results |-> <<>>, calls |-> 0]
    ELSE LET nb == NumBatches(Len(candidates), size)
             out == [b \in 1..nb |->
                        LET batch == BatchOf(candidates, size, b)
                        IN  ProcessBatch(batch, RerankBatch(judges[b], Len(batch)),
                                         weight)]
         IN  IF \E b \in 1..nb : out[b].raised
             THEN [raised |-> TRUE, results |-> <<>>, calls |-> nb]
             ELSE [raised |-> FALSE,
                   results |-> SortByCombinedScore(
                                   ExtendAll([b \in 1..nb |-> out[b].results]), <<>>),
                   calls |-> nb]

\* reranked_results[:top_n] taken from the wrong end
TopNFromEnd(results, n) ==
    SubSeq(results, Len(results) - Min(n, Len(results)) + 1, Len(results))

\* reranked_results[:top_n] for top_n >= 0
TopN(results, n) == Take(results, n)

\* What the index holds for a query: hits of one file, nearest first.
StoreHits == {h \in HitSet : h.source_file = "a.pdf"}
StoreDocuments == {StoredDocument(h) : h \in StoreHits} \cup {BareDocument}
Stores ==
    {NoStore} \cup
    {[attached |-> TRUE, index |-> s] : s \in
        {s \in SeqsUpTo(StoreDocuments, MaxHits) :
            \A i \in 1..(Len(s) - 1) : s[i].score <= s[i+1].score}}

\* What the judge does for a batch of n texts in the retrieval runs
RetrievalJudges(n) ==
    {Raises} \cup {Answers(JsonResponse(s)) : s \in [1..n -> {3, 8}]}

JudgeRuns(candidates, size) ==
    LET nb == NumBatches(Len(candidates), size)
    IN  {js \in [1..nb -> UNION {RetrievalJudges(n) : n \in 1..size}] :
            \A b \in 1..nb : js[b] \in RetrievalJudges(Len(BatchOf(candidates, size, b)))}

InitHybrid ==
    /\ pc = "vector_search"
    /\ vectorstore \in Stores
    /\ llm_reranking_sample_size \in {0, MaxHits}
    /\ top_n \in 0..MaxTopN
    /\ reranked_results = <<>>
    /\ retrieved = <<>>
    /\ judge_calls = 0
    /\ IdleAggregator
    /\ documents = <<>>
    /\ documents_batch_size \in 1..MaxBatchSize
    /\ llm_weight \in {3, 7}
    /\ batch_results = <<>>
    /\ llm_scores = <<>>
    /\ judge_path = <<>>
    /\ vector_similarity = <<>>
    /\ out_of_order = FALSE
    /\ all_results = <<>>
    /\ IdleParser
    /\ IdleSplitter
    /\ IdleWorkflow

\* chunk_results = self.vector_retriever.retrieve(query, top_k)
VectorRetrieve ==
    /\ pc = "vector_search"
    /\ LET out == VectorRetrieverRetrieve(vectorstore, llm_reranking_sample_size)
       IN  /\ chunk_results' = out.results
           /\ pc' = IF out.raised THEN "raised" ELSE "aggregate"
    /\ UNCHANGED <<parsed_reports, parent_results>>
    /\ UNCHANGED <<rerankVars, parseVars, retrieveVars, splitVars, flowVars>>

\* reranked_results = self.reranker.rerank_documents(parent_results, ...)
RerankParents ==
    /\ pc = "aggregated"
    /\ \E judges \in JudgeRuns(parent_results, documents_batch_size) :
          LET out == RerankDocuments(parent_results, documents_batch_size,
                                     llm_weight, judges)
          IN  /\ reranked_results' = out.results
              /\ judge_calls' = judge_calls + out.calls
              /\ pc' = IF out.raised THEN "raised" ELSE "reranked"
    /\ UNCHANGED <<vectorstore, llm_reranking_sample_size, top_n, retrieved>>
    /\ UNCHANGED <<aggVars, rerankVars, parseVars, splitVars, flowVars>>

\* return reranked_results[:top_n]
ReturnTopN ==
    /\ pc = "reranked"
    /\ retrieved' = TopN(reranked_results, top_n)
    /\ pc' = "retrieved"
    /\ UNCHANGED <<vectorstore, llm_reranking_sample_size, top_n,
                   reranked_results, judge_calls>>
    /\ UNCHANGED <<aggVars, rerankVars, parseVars, splitVars, flowVars>>

NextHybrid == VectorRetrieve \/ Aggregate \/ RerankParents \/ ReturnTopN

SpecHybrid == InitHybrid /\ [][NextHybrid]_vars

\* C11: empty input is valid at every stage of retrieve.  Without a vector
\* store the vector search returns no hits; on no hits the aggregator returns
\* no candidates; on no candidates the reranker returns no records and does
\* not call the judge; and retrieve as a whole, without a vector store,
\* returns the empty list, never raises and never calls the judge.
C11_EmptyInputValid ==
    /\ (~vectorstore.attached /\ pc # "vector_search" => chunk_results = <<>>)
    /\ (chunk_results = <<>> /\ pc \in {"aggregated", "reranked", "retrieved"}
            => parent_results = <<>>)
    /\ (parent_results = <<>> /\ pc \in {"reranked", "retrieved"}
            => reranked_results = <<>> /\ judge_calls = 0)
    /\ (parent_results = <<>> => pc # "raised")
    /\ (~vectorstore.attached
            => /\ pc # "raised"
               /\ judge_calls = 0
               /\ (pc = "retrieved" => retrieved = <<>>))

C11_Witness ==
    /\ pc = "retrieved"
    /\ ~vectorstore.attached
    /\ top_n > 0
    /\ llm_reranking_sample_size > 0
    /\ retrieved = <<>>

\* C12: retrieve returns at most top_n records; they are the first records
\* of the reranked list, no record left out has a higher combined_score than
\* a record returned, the records returned are in descending score order,
\* and all reranked records are returned when there are at most top_n.
C12_TopNHighest ==
    pc = "retrieved" =>
        /\ Len(retrieved) = Min(top_n, Len(reranked_results))
        /\ \A i \in 1..Len(retrieved) : retrieved[i] = reranked_results[i]
        /\ \A i \in 1..Len(retrieved) :
              \A j \in (Len(retrieved) + 1)..Len(reranked_results) :
                  reranked_results[j].combined_score <= retrieved[i].combined_score
        /\ \A i \in 1..(Len(retrieved) - 1) :
              retrieved[i].combined_score >= retrieved[i+1].combined_score

C12_Witness ==
    /\ pc = "retrieved"
    /\ top_n = 2
    /\ Len(reranked_results) = 3
    /\ Len(retrieved) = 2
    /\ reranked_results[2].combined_score > reranked_results[3].combined_score


-----------------------------------------------------------------------------
(* The workflows of __main__: ingest_node, embed_node, retrieval_node, rag_node *)

MaxFiles == 2       \* most files given by the user

\* The arguments retrieval_node passes to HybridRetriever.retrieve
NodeSampleSize == 30
NodeBatchSize == 2
NodeTopN == 10
NodeWeight == 7

\* What parse_document and split_document make of one file: parsing fails
\* (missing file, document_type 'failed', exception) or gives a report and
\* the chunks of it, possibly none.  A chunk carries the distance the index
\* will report for the question asked later.
\* The text of page page_num in the report of source_file, "" if the report
\* has no such page
OwnPageText(reports, source_file, page_num) ==
    LET own == SelectSeq(FlattenPages(SelectSeq(reports, LAMBDA r : r.source_file = source_file)),
                         LAMBDA pg : pg.page = page_num)
    IN  IF own = <<>> THEN "" ELSE own[Len(own)].text

\* The report parse_document makes of the file of this name
ReportOf(file_path) == CHOOSE r \in Range(Reports) : r.source_file = file_path

\* The chunks split_document can return for a report: chunks of its pages
\* that have text, a cross-page chunk with its page_range in ascending order
FileChunks(report) ==
    SeqsUpTo({StoredDocument(h) : h \in
                {g \in StoreHits :
                    /\ g.distance = 1
                    /\ g.metadata.page_range = Sorted(g.metadata.page_range)
                    /\ \A pn \in HitPages(g) :
                          ~IsBlank(OwnPageText(<<report>>, report.source_file, pn))}},
             2)
\* What happens to a given path in the loop of ingest_node.  cause says why
\* a file is not parsed: "missing" (os.path.exists is false), "failed" (the
\* report has document_type 'failed'), "raised" (an exception inside the
\* try block); chunks is what split_document returned for the file, for a
\* file of cause "raised" what had been produced when the exception came.
FileOutcomes ==
    {[file_path |-> "a.pdf", parsed |-> FALSE, cause |-> "missing", chunks |-> <<>>],
     [file_path |-> "a.pdf", parsed |-> FALSE, cause |-> "failed", chunks |-> <<>>]} \cup
    {[file_path |-> "a.pdf", parsed |-> FALSE, cause |-> "raised", chunks |-> c] :
        c \in {<<>>, <<StoredDocument(CHOOSE g \in StoreHits : g.distance = 1 /\ g.page = 4 /\ ~g.metadata.spans_pages)>>}} \cup
    UNION {{[file_path |-> f, parsed |-> TRUE, cause |-> "none", chunks |-> c] :
                c \in FileChunks(ReportOf(f))} : f \in SourceFiles}

\* chunk.metadata.update({"source_file": os.path.basename(file_path), ...})
IngestedChunk(file, chunk) ==
    [chunk EXCEPT !.metadata.source_file = file.file_path]

\* ingest_node appending the chunks of every file, parsed or not
IngestFilesKeepingAll(files) ==
    LET entries == SelectSeq(files, LAMBDA f : f.parsed)
    IN  [raised |-> Len(entries) = 0,
         parsed_reports |-> [i \in 1..Len(entries) |-> ReportOf(entries[i].file_path)],
         all_chunks |-> ExtendAll([i \in 1..Len(files) |->
                           [k \in 1..Len(files[i].chunks) |->
                               IngestedChunk(files[i], files[i].chunks[k])]])]

\* The loop of ingest_node over a non-empty list of paths: a file that is
\* missing, failed or raised is counted and skipped, a parsed file appends
\* its entry to parsed_reports; RuntimeError when successful_count is 0,
\* otherwise all_chunks is the chunks of the entries in order.
IngestFiles(files) ==
    LET entries == SelectSeq(files, LAMBDA f : f.parsed)
    IN  [raised |-> Len(entries) = 0,
         parsed_reports |-> [i \in 1..Len(entries) |-> ReportOf(entries[i].file_path)],
         all_chunks |-> ExtendAll([i \in 1..Len(entries) |->
                           [k \in 1..Len(entries[i].chunks) |->
                               IngestedChunk(entries[i], entries[i].chunks[k])]])]

\* Insertion of chunk x into a list ordered by ascending distance
RECURSIVE InsertByDistance(_, _)
InsertByDistance(sorted, x) ==
    IF sorted = <<>> THEN <<x>>
    ELSE IF Head(sorted).score <= x.score
         THEN <<Head(sorted)>> \o InsertByDistance(Tail(sorted), x)
         ELSE <<x>> \o sorted

\* The order in which the index returns the stored chunks for the question
RECURSIVE NearestFirst(_)
NearestFirst(stored) ==
    IF stored = <<>> THEN <<>>
    ELSE InsertByDistance(NearestFirst(Tail(stored)), Head(stored))

\* _assemble_context: one source-tagged block per result, in order
AssembleContext(results) ==
    [i \in 1..Len(results) |->
        [source_file |-> results[i].source_file, page |-> results[i].page,
         text |-> results[i].text]]

\* __main__ found no usable database: the user is asked for files.
InitFresh ==
    /\ pc = "files"
    /\ user_files \in SeqsUpTo(FileOutcomes, MaxFiles)
    /\ vectorstore = NoStore
    /\ parsed_reports = <<>>

\* __main__ loaded an existing database, which holds chunks an earlier
\* session ingested: docs = [], parsed_reports = [].
InitExisting ==
    /\ pc = "question"
    /\ user_files = <<>>
    /\ vectorstore \in {s \in Stores : /\ s.attached
                                       /\ Len(s.index) <= 1
                                       /\ \A k \in 1..Len(s.index) : s.index[k] # BareDocument}
    /\ parsed_reports = <<>>

InitWorkflow ==
    /\ InitFresh \/ InitExisting
    /\ state_docs = <<>>
    /\ final_context = <<>>
    /\ final_answer = None
    /\ failure = None
    /\ chunk_results = <<>>
    /\ parent_results = <<>>
    /\ llm_reranking_sample_size = NodeSampleSize
    /\ top_n = NodeTopN
    /\ reranked_results = <<>>
    /\ retrieved = <<>>
    /\ judge_calls = 0
    /\ IdleReranker
    /\ IdleParser
    /\ IdleSplitter

\* if not user_files: print("No files provided. Exiting."); exit(1)
NoFiles ==
    /\ pc = "files"
    /\ user_files = <<>>
    /\ failure' = "No files provided"
    /\ pc' = "exit"
    /\ UNCHANGED <<user_files, state_docs, final_context, final_answer>>
    /\ UNCHANGED <<aggVars, rerankVars, parseVars, retrieveVars, splitVars>>

\* ingest_node under init_graph.invoke: RuntimeError when no file parses,
\* which __main__ reports before exit(1); otherwise docs = all chunks.
IngestNode ==
    /\ pc = "files"
    /\ user_files # <<>>
    /\ IF IngestFiles(user_files).raised
       THEN /\ failure' = "Document parsing failed for all files"
            /\ pc' = "exit"
            /\ UNCHANGED <<state_docs, parsed_reports>>
       ELSE /\ state_docs' = IngestFiles(user_files).all_chunks
            /\ parsed_reports' = IngestFiles(user_files).parsed_reports
            /\ pc' = "embed"
            /\ UNCHANGED failure
    /\ UNCHANGED <<user_files, final_context, final_answer>>
    /\ UNCHANGED <<chunk_results, parent_results>>
    /\ UNCHANGED <<rerankVars, parseVars, retrieveVars, splitVars>>

\* embed_node: a vector store is created only when there are chunks.
EmbedNode ==
    /\ pc = "embed"
    /\ vectorstore' = IF state_docs # <<>>
                      THEN [attached |-> TRUE, index |-> NearestFirst(state_docs)]
                      ELSE NoStore
    /\ pc' = "question"
    /\ UNCHANGED <<llm_reranking_sample_size, top_n, reranked_results,
                   retrieved, judge_calls>>
    /\ UNCHANGED flowVars
    /\ UNCHANGED <<aggVars, rerankVars, parseVars, splitVars>>

\* retrieval_node for a question: retrieve and _assemble_context
RetrievalNode ==
    /\ pc = "question"
    /\ LET hits == VectorRetrieverRetrieve(vectorstore, NodeSampleSize)
           parents == AggregateToParentPages(BuildPageContentMap(parsed_reports),
                                             hits.results)
       IN  \E judges \in JudgeRuns(parents, NodeBatchSize) :
              LET out == RerankDocuments(parents, NodeBatchSize, NodeWeight, judges)
              IN  /\ chunk_results' = hits.results
                  /\ parent_results' = parents
                  /\ reranked_results' = out.results
                  /\ retrieved' = TopN(out.results, NodeTopN)
                  /\ judge_calls' = judge_calls + out.calls
                  /\ final_context' = AssembleContext(TopN(out.results, NodeTopN))
                  /\ pc' = IF hits.raised \/ out.raised THEN "raised" ELSE "rag"
    /\ UNCHANGED <<parsed_reports, vectorstore, llm_reranking_sample_size, top_n>>
    /\ UNCHANGED <<user_files, state_docs, final_answer, failure>>
    /\ UNCHANGED <<rerankVars, parseVars, splitVars>>

\* rag_node: the answer model is called with whatever context there is; its
\* answer, or the answer of the second call made when the first fails, is
\* the final answer.  When both calls fail the exception reaches the caller.
RagNode ==
    /\ pc = "rag"
    /\ \E outcome \in {"structured", "fallback", "raises"} :
          IF outcome = "raises"
          THEN /\ failure' = "answer model failed"
               /\ pc' = "raised"
               /\ UNCHANGED final_answer
          ELSE /\ final_answer' = outcome
               /\ pc' = "answered"
               /\ UNCHANGED failure
    /\ UNCHANGED <<user_files, state_docs, final_context>>
    /\ UNCHANGED <<aggVars, rerankVars, parseVars, retrieveVars, splitVars>>

NextWorkflow == NoFiles \/ IngestNode \/ EmbedNode \/ RetrievalNode \/ RagNode

SpecWorkflow == InitWorkflow /\ [][NextWorkflow]_vars

\* C13: when a question has been processed with no vector index attached
\* (which is also what ingesting zero chunks leaves behind), the caller has
\* been given a failure with a reason and no ordinary answer has been
\* produced.
C13_FailureSurfaced ==
    (pc = "answered" /\ ~vectorstore.attached)
        => (failure # None /\ final_answer = None)


-----------------------------------------------------------------------------
(* CrossPageTextSplitter: the cross-page strategy *)

(* Text is a sequence of symbols.  "NL" is a newline, " " a blank, a page   *)
(* marker "\n--- PAGE n ---\n" is the five symbols                          *)
(*     "NL"  "--- PAGE "  "n"  " ---"  "NL"                                 *)
(* and every other symbol is a piece of page text.  Positions and lengths   *)
(* count symbols, positions from 0 as str.find does.                        *)

MaxPages == 2       \* most pages of a document given to split_document
MaxChunks == 3      \* most windows the text splitter returns for a document

FirstPage == 3      \* page number of a document's first page in the runs

Whitespace == {"NL", " "}

\* not t.strip()
IsBlankText(t) == \A i \in 1..Len(t) : t[i] \in Whitespace

\* number of whitespace symbols at the start and at the end of t
LeadingBlanks(t) ==
    IF IsBlankText(t) THEN Len(t)
    ELSE (CHOOSE i \in 1..Len(t) :
             /\ t[i] \notin Whitespace
             /\ \A j \in 1..(i - 1) : t[j] \in Whitespace) - 1
TrailingBlanks(t) ==
    IF IsBlankText(t) THEN Len(t)
    ELSE Len(t) - (CHOOSE i \in 1..Len(t) :
                      /\ t[i] \notin Whitespace
                      /\ \A j \in (i + 1)..Len(t) : t[j] \in Whitespace)

\* t.strip()
Strip(t) ==
    IF IsBlankText(t) THEN <<>>
    ELSE SubSeq(t, LeadingBlanks(t) + 1, Len(t) - TrailingBlanks(t))

\* f"\n--- PAGE {page_num} ---\n"
PageMarker(page_num) == <<"NL", "--- PAGE ", ToString(page_num), " ---", "NL">>

\* the symbols that \d+ matches
IsNumber(symbol) == symbol \in {ToString(n) : n \in 0..(FirstPage + MaxPages + 1)}

\* _combine_pages_with_markers: the combined text and, per page with text,
\* its (page_num, start_pos, end_pos)
RECURSIVE CombinePages(_, _, _)
CombinePages(pages, combined, boundaries) ==
    IF pages = <<>> THEN [text |-> combined, page_boundaries |-> boundaries]
    ELSE LET page_text == Strip(Head(pages).text)
             page_content == PageMarker(Head(pages).page) \o page_text \o <<"NL">>
         IN  IF page_text = <<>>
             THEN CombinePages(Tail(pages), combined, boundaries)
             ELSE CombinePages(Tail(pages), combined \o page_content,
                      Append(boundaries,
                             [page |-> Head(pages).page,
                              start_pos |-> Len(combined),
                              end_pos |-> Len(combined) + Len(page_content)]))

CombinePagesWithMarkers(pages) == CombinePages(pages, <<>>, <<>>)

\* _remove_page_markers: re.sub(r'\n--- PAGE \d+ ---\n', '\n', text), the
\* matches taken left to right without overlap
RECURSIVE RemovePageMarkers(_)
RemovePageMarkers(text) ==
    IF text = <<>> THEN <<>>
    ELSE IF /\ Len(text) >= 5
            /\ text[1] = "NL" /\ text[2] = "--- PAGE " /\ IsNumber(text[3])
            /\ text[4] = " ---" /\ text[5] = "NL"
         THEN <<"NL">> \o RemovePageMarkers(SubSeq(text, 6, Len(text)))
         ELSE <<Head(text)>> \o RemovePageMarkers(Tail(text))

\* text.find(chunk): the first position where chunk occurs, -1 if none
Find(text, chunk) ==
    LET occurrences == {s \in 0..(Len(text) - Len(chunk)) :
                            SubSeq(text, s + 1, s + Len(chunk)) = chunk}
    IN  IF occurrences = {} THEN -1
        ELSE CHOOSE s \in occurrences : \A o \in occurrences : s <= o

\* _get_page_range with the overlap test turned around
GetPageRangeOutside(chunk_start, chunk_end, page_boundaries) ==
    LET covering == SelectSeq(page_boundaries,
                        LAMBDA b : chunk_start > b.end_pos /\ chunk_end < b.start_pos)
    IN  IF covering # <<>>
        THEN Sorted([i \in 1..Len(covering) |-> covering[i].page])
        ELSE <<1>>

\* _get_page_range
GetPageRange(chunk_start, chunk_end, page_boundaries) ==
    LET covering == SelectSeq(page_boundaries,
                        LAMBDA b : chunk_start < b.end_pos /\ chunk_end > b.start_pos)
    IN  IF covering # <<>>
        THEN Sorted([i \in 1..Len(covering) |-> covering[i].page])
        ELSE <<1>>

\* The body of the loop of _split_cross_page_document for window i of
\* text_chunks (windows): the Document appended.  window is not a field of
\* the Document: it records where the text splitter took the chunk from.
CrossPageDocument(combined_text, page_boundaries, windows, i) ==
    LET chunk == windows[i].text
        clean_chunk == RemovePageMarkers(chunk)
        chunk_start == Find(combined_text, chunk)
        chunk_end == chunk_start + Len(chunk)
        page_range == GetPageRange(chunk_start, chunk_end, page_boundaries)
    IN  [page_content |-> Strip(clean_chunk),
         chunk |-> i,                \* i + 1 for the 0-based i of enumerate
         total_chunks |-> Len(windows),
         content_type |-> "cross_page_text",
         page |-> page_range[1],
         page_range |-> IF Len(page_range) = 1 THEN <<>> ELSE page_range,
         spans_pages |-> Len(page_range) # 1,
         window |-> [start |-> windows[i].start, end |-> windows[i].end]]

\* The loop of _split_cross_page_document from window i on
RECURSIVE CrossPageDocuments(_, _, _, _)
CrossPageDocuments(combined_text, page_boundaries, windows, i) ==
    IF i > Len(windows) THEN <<>>
    ELSE IF IsBlankText(windows[i].text)
         THEN CrossPageDocuments(combined_text, page_boundaries, windows, i + 1)
         ELSE <<CrossPageDocument(combined_text, page_boundaries, windows, i)>>
              \o CrossPageDocuments(combined_text, page_boundaries, windows, i + 1)


\* The texts of a page and the documents of the cross-page runs
PageTexts == {<<>>, <<"a">>, <<"b", "a">>}
PdfDocuments ==
    {[document_type |-> "pdf",
      pages |-> [i \in 1..Len(t) |-> [page |-> FirstPage + i - 1, text |-> t[i]]]]
        : t \in SeqsUpTo(PageTexts, MaxPages)}

(* text_splitter.split_text is RecursiveCharacterTextSplitter of langchain, *)
(* whose code is not in the repository.  What is kept of it: the chunks are *)
(* taken from consecutive windows that cover the text, a window may start   *)
(* before the end of the one before (chunk_overlap), and each chunk is the  *)
(* window stripped of outer whitespace.  How long a window is (chunk_size,  *)
(* the separators) is left open, and a window of whitespace alone comes     *)
(* back as a blank chunk, the case the loop's "if not chunk.strip()" tests. *)
Overlaps == {0, 1}

\* The chunk taken from the window [s, e) and where its text lies
SplitterWindow(combined_text, s, e) ==
    LET raw == SubSeq(combined_text, s + 1, e)
    IN  IF IsBlankText(raw)
        THEN [text |-> <<>>, start |-> s, end |-> e]
        ELSE [text |-> Strip(raw),
              start |-> s + LeadingBlanks(raw),
              end |-> e - TrailingBlanks(raw)]

\* The lists of at most k chunks whose windows cover the text from s on
RECURSIVE SplitText(_, _, _)
SplitText(combined_text, s, k) ==
    IF k = 0 THEN {}
    ELSE {<<SplitterWindow(combined_text, s, Len(combined_text))>>}
         \cup UNION {
                UNION {
                  {<<SplitterWindow(combined_text, s, e)>> \o rest :
                      rest \in SplitText(combined_text, e - ov, k - 1)}
                  : ov \in {o \in Overlaps : e - o > s}}
                : e \in (s + 1)..(Len(combined_text) - 1)}

-----------------------------------------------------------------------------
(* CrossPageTextSplitter: the excel strategy *)

(* A sheet text is the sequence of its lines (sheet_text.split('\n')).  A   *)
(* line is [starts, size, id]: what it starts with ("Sheet:", "Headers:",   *)
(* "Row", "" for an empty line, "other" for anything else), its length and  *)
(* its position in the sheet text.                                          *)

MaxRows == 3        \* most lines after the header block of a sheet

\* chunk_size of the excel and pptx runs; 300 is the default of __init__
DefaultChunkSize == 300
ChunkSizes == {10, 27, 40, DefaultChunkSize}

\* sum of the sizes of the records of s
RECURSIVE SumSizes(_)
SumSizes(s) == IF s = <<>> THEN 0 ELSE Head(s).size + SumSizes(Tail(s))

\* len('\n'.join(lines))
JoinedLength(lines) == IF lines = <<>> THEN 0 ELSE SumSizes(lines) + Len(lines) - 1

SheetInfo(lines) == SelectSeq(lines, LAMBDA l : l.starts \in {"Sheet:", "Headers:"})
DataRows(lines) == SelectSeq(lines, LAMBDA l : l.starts = "Row")

\* The grouping loop without "and current_group" in its test
RECURSIVE RowGroupsLoopAlwaysFlush(_, _, _, _, _, _)
RowGroupsLoopAlwaysFlush(data_rows, header_len, size, current_group, current_size, row_groups) ==
    IF data_rows = <<>>
    THEN [row_groups |-> row_groups, current_group |-> current_group]
    ELSE LET row == Head(data_rows)
         IN  IF current_size + row.size > size
             THEN RowGroupsLoopAlwaysFlush(Tail(data_rows), header_len, size, <<row>>,
                      header_len + row.size, Append(row_groups, current_group))
             ELSE RowGroupsLoopAlwaysFlush(Tail(data_rows), header_len, size,
                      Append(current_group, row), current_size + row.size,
                      row_groups)

\* for row in data_rows: ... of _split_excel_sheet
RECURSIVE RowGroupsLoop(_, _, _, _, _, _)
RowGroupsLoop(data_rows, header_len, size, current_group, current_size, row_groups) ==
    IF data_rows = <<>>
    THEN [row_groups |-> row_groups, current_group |-> current_group]
    ELSE LET row == Head(data_rows)
         IN  IF current_size + row.size > size /\ current_group # <<>>
             THEN RowGroupsLoop(Tail(data_rows), header_len, size, <<row>>,
                      header_len + row.size, Append(row_groups, current_group))
             ELSE RowGroupsLoop(Tail(data_rows), header_len, size,
                      Append(current_group, row), current_size + row.size,
                      row_groups)

\* row_groups without the flush of the last group
RowGroupsNoLastFlush(data_rows, header_len, size) ==
    RowGroupsLoop(data_rows, header_len, size, <<>>, header_len, <<>>).row_groups

\* row_groups of _split_excel_sheet, the last group flushed when not empty
RowGroups(data_rows, header_len, size) ==
    LET loop == RowGroupsLoop(data_rows, header_len, size, <<>>, header_len, <<>>)
    IN  IF loop.current_group # <<>>
        THEN Append(loop.row_groups, loop.current_group)
        ELSE loop.row_groups

EmptyLine == [starts |-> "", size |-> 0, id |-> 0]

\* (context_header + '\n\n' + '\n'.join(group)).strip() as a list of lines
ExcelChunkContent(sheet_info, group) ==
    IF sheet_info = <<>> THEN group
    ELSE IF group = <<>> THEN sheet_info
    ELSE sheet_info \o <<EmptyLine>> \o group

\* _split_excel_sheet with current_size started at 0: the length of the
\* header block is not counted.
SplitExcelSheetHeaderUncounted(lines, page_num, size) ==
    LET sheet_info == SheetInfo(lines)
        row_groups == RowGroups(DataRows(lines), 0, size)
    IN  [i \in 1..Len(row_groups) |->
            [page_content |-> ExcelChunkContent(sheet_info, row_groups[i]),
             page |-> page_num,
             chunk |-> i,
             total_chunks |-> Len(row_groups),
             content_type |-> "excel_table",
             has_headers |-> \E k \in 1..Len(lines) : lines[k].starts = "Headers:"]]

\* _split_excel_sheet
SplitExcelSheet(lines, page_num, size) ==
    LET sheet_info == SheetInfo(lines)
        row_groups == RowGroups(DataRows(lines), JoinedLength(sheet_info), size)
    IN  [i \in 1..Len(row_groups) |->
            [page_content |-> ExcelChunkContent(sheet_info, row_groups[i]),
             page |-> page_num,
             chunk |-> i,
             total_chunks |-> Len(row_groups),
             content_type |-> "excel_table",
             has_headers |-> \E k \in 1..Len(lines) : lines[k].starts = "Headers:"]]

\* not page_text.strip() for a text kept as lines
IsBlankLines(lines) == \A i \in 1..Len(lines) : lines[i].starts = ""

\* _split_excel_document
RECURSIVE SplitExcelDocument(_, _)
SplitExcelDocument(pages, size) ==
    IF pages = <<>> THEN <<>>
    ELSE (IF IsBlankLines(Head(pages).text) THEN <<>>
          ELSE SplitExcelSheet(Head(pages).text, Head(pages).page, size))
         \o SplitExcelDocument(Tail(pages), size)

(* The sheet texts ExcelParser.parse_excel writes: "Sheet: name", an empty  *)
(* line, "Headers: ...", an empty line, then one "Row i: ..." line per row  *)
(* of a sheet that is not empty.  A cell that holds a line break continues  *)
(* its row on a line of its own ("other").                                  *)
SheetLineSize == 8
HeadersLineSize == 10
RowLineSizes == {8, 12}
OtherLineSize == 4

WithIds(lines) == [i \in 1..Len(lines) |-> [lines[i] EXCEPT !.id = i]]

SheetTexts(n) ==
    {WithIds(<<[starts |-> "Sheet:", size |-> SheetLineSize, id |-> 0], EmptyLine,
               [starts |-> "Headers:", size |-> HeadersLineSize, id |-> 0], EmptyLine,
               [starts |-> "Row", size |-> first, id |-> 0]>> \o more)
        : first \in RowLineSizes,
          more \in SeqsUpTo({[starts |-> "Row", size |-> s, id |-> 0] : s \in RowLineSizes}
                            \cup {[starts |-> "other", size |-> OtherLineSize, id |-> 0]},
                            n - 1)}

\* One sheet of up to MaxRows lines, or up to MaxPages sheets of one row,
\* among them sheets without text.
ExcelDocuments ==
    {[document_type |-> "excel", pages |-> <<[page |-> 1, text |-> t]>>]
        : t \in SheetTexts(MaxRows)}
    \cup
    {[document_type |-> "excel",
      pages |-> [i \in 1..Len(t) |-> [page |-> i, text |-> t[i]]]]
        : t \in SeqsUpTo(SheetTexts(1) \cup {<<EmptyLine>>}, MaxPages)}

-----------------------------------------------------------------------------
(* CrossPageTextSplitter: the pptx strategy *)

(* A slide text is the sequence of its line groups                          *)
(* (slide_text.split('\n\n')).  A line group is [starts, size, id]: what it *)
(* starts with ("Table:", "Chart:", "Image:", "Text Frame:", "Group:", ""   *)
(* for a blank one, "other" for anything else), its length and its position *)
(* on the slide.                                                            *)

MaxBlocks == 3      \* most line groups of a slide

\* content_type of a line group
BlockType(line_group) ==
    CASE line_group.starts = "Table:" -> "table"
      [] line_group.starts = "Chart:" -> "chart"
      [] line_group.starts = "Image:" -> "image"
      [] line_group.starts = "Text Frame:" -> "text_frame"
      [] line_group.starts = "Group:" -> "group"
      [] OTHER -> "text"

\* _parse_pptx_content_blocks: content keeps the line group itself
ParsePptxContentBlocks(line_groups) ==
    LET kept == SelectSeq(line_groups, LAMBDA g : g.starts # "")
    IN  [i \in 1..Len(kept) |->
            [content |-> kept[i], type |-> BlockType(kept[i]), size |-> kept[i].size]]

NoGroup == [content |-> <<>>, types |-> {}, size |-> 0]
Flushed(current_group) == [content |-> current_group.content, types |-> current_group.types]
WithBlock(current_group, block) ==
    [content |-> Append(current_group.content, block.content),
     types |-> current_group.types \cup {block.type},
     size |-> current_group.size + block.size]

\* The grouping loop without the flush ahead of a table or chart
RECURSIVE GroupPptxLoopNoFlushBefore(_, _, _, _)
GroupPptxLoopNoFlushBefore(content_blocks, size, current_group, groups) ==
    IF content_blocks = <<>>
    THEN IF current_group.content # <<>>
         THEN Append(groups, Flushed(current_group)) ELSE groups
    ELSE LET block == Head(content_blocks)
             added == WithBlock(current_group, block)
         IN  IF block.type \in {"table", "chart"} \/ added.size > size
             THEN GroupPptxLoopNoFlushBefore(Tail(content_blocks), size, NoGroup,
                                             Append(groups, Flushed(added)))
             ELSE GroupPptxLoopNoFlushBefore(Tail(content_blocks), size, added, groups)

\* _group_pptx_content: the loop over the blocks and the last flush
RECURSIVE GroupPptxLoop(_, _, _, _)
GroupPptxLoop(content_blocks, size, current_group, groups) ==
    IF content_blocks = <<>>
    THEN IF current_group.content # <<>>
         THEN Append(groups, Flushed(current_group)) ELSE groups
    ELSE LET block == Head(content_blocks)
             atomic == block.type \in {"table", "chart"}
             before == atomic /\ current_group.content # <<>>
             groups1 == IF before THEN Append(groups, Flushed(current_group)) ELSE groups
             added == WithBlock(IF before THEN NoGroup ELSE current_group, block)
         IN  IF atomic \/ added.size > size
             THEN GroupPptxLoop(Tail(content_blocks), size, NoGroup,
                                Append(groups1, Flushed(added)))
             ELSE GroupPptxLoop(Tail(content_blocks), size, added, groups1)

GroupPptxContent(content_blocks, size) ==
    GroupPptxLoop(content_blocks, size, NoGroup, <<>>)

\* _split_pptx_slide: a group's content is never blank, its blocks are not
RECURSIVE PptxDocuments(_, _, _)
PptxDocuments(grouped_blocks, page_num, i) ==
    IF i > Len(grouped_blocks) THEN <<>>
    ELSE (IF grouped_blocks[i].content = <<>> THEN <<>>
          ELSE <<[page_content |-> grouped_blocks[i].content,
                  page |-> page_num,
                  chunk |-> i,
                  total_chunks |-> Len(grouped_blocks),
                  content_type |-> "pptx_slide",
                  object_types |-> grouped_blocks[i].types]>>)
         \o PptxDocuments(grouped_blocks, page_num, i + 1)

SplitPptxSlide(line_groups, page_num, size) ==
    LET content_blocks == ParsePptxContentBlocks(line_groups)
    IN  IF content_blocks = <<>> THEN <<>>
        ELSE PptxDocuments(GroupPptxContent(content_blocks, size), page_num, 1)

\* _split_pptx_document
RECURSIVE SplitPptxDocument(_, _)
SplitPptxDocument(pages, size) ==
    IF pages = <<>> THEN <<>>
    ELSE (IF IsBlankLines(Head(pages).text) THEN <<>>
          ELSE SplitPptxSlide(Head(pages).text, Head(pages).page, size))
         \o SplitPptxDocument(Tail(pages), size)

\* The line groups of the runs and their lengths
LineGroups ==
    {[starts |-> "Table:", size |-> 20, id |-> 0],
     [starts |-> "Chart:", size |-> 8, id |-> 0],
     [starts |-> "Text Frame:", size |-> 12, id |-> 0],
     [starts |-> "other", size |-> 4, id |-> 0],
     [starts |-> "", size |-> 1, id |-> 0]}

SlideTexts(n) == {WithIds(s) : s \in SeqsUpTo(LineGroups, n)}

\* One slide of up to MaxBlocks line groups, or up to MaxPages slides of at
\* most one line group.
PptxDocumentsOfRuns ==
    {[document_type |-> "pptx", pages |-> <<[page |-> 1, text |-> t]>>]
        : t \in SlideTexts(MaxBlocks)}
    \cup
    {[document_type |-> "pptx",
      pages |-> [i \in 1..Len(t) |-> [page |-> i, text |-> t[i]]]]
        : t \in SeqsUpTo(SlideTexts(1), MaxPages)}

-----------------------------------------------------------------------------
(* split_document *)

InitSplit ==
    /\ pc = "split"
    /\ \/ document_data \in PdfDocuments /\ chunk_size = DefaultChunkSize
       \/ document_data \in ExcelDocuments /\ chunk_size \in ChunkSizes
       \/ document_data \in PptxDocumentsOfRuns /\ chunk_size \in ChunkSizes
    /\ text_chunks = <<>>
    /\ chunk_documents = <<>>
    /\ IdleAggregator
    /\ IdleReranker
    /\ IdleParser
    /\ IdleRetriever
    /\ IdleWorkflow

IsCrossPage(data) == data.document_type \notin {"excel", "pptx"}

\* if not pages: return [];  if not combined_text.strip(): return []
SplitNothing ==
    /\ pc = "split"
    /\ IsCrossPage(document_data)
    /\ \/ document_data.pages = <<>>
       \/ IsBlankText(CombinePagesWithMarkers(document_data.pages).text)
    /\ chunk_documents' = <<>>
    /\ pc' = "split_done"
    /\ UNCHANGED <<document_data, chunk_size, text_chunks>>
    /\ UNCHANGED <<aggVars, rerankVars, parseVars, retrieveVars, flowVars>>

\* text_chunks = self.text_splitter.split_text(combined_text)
SplitCombinedText ==
    /\ pc = "split"
    /\ IsCrossPage(document_data)
    /\ document_data.pages # <<>>
    /\ LET combined_text == CombinePagesWithMarkers(document_data.pages).text
       IN  /\ ~IsBlankText(combined_text)
           /\ text_chunks' \in SplitText(combined_text, 0, MaxChunks)
    /\ pc' = "windows"
    /\ UNCHANGED <<document_data, chunk_size, chunk_documents>>
    /\ UNCHANGED <<aggVars, rerankVars, parseVars, retrieveVars, flowVars>>

\* the loop over text_chunks and the return of _split_cross_page_document
EmitCrossPageChunks ==
    /\ pc = "windows"
    /\ LET combined == CombinePagesWithMarkers(document_data.pages)
       IN  chunk_documents' =
              CrossPageDocuments(combined.text, combined.page_boundaries,
                                 text_chunks, 1)
    /\ pc' = "split_done"
    /\ UNCHANGED <<document_data, chunk_size, text_chunks>>
    /\ UNCHANGED <<aggVars, rerankVars, parseVars, retrieveVars, flowVars>>

\* split_document of an excel document
SplitExcel ==
    /\ pc = "split"
    /\ document_data.document_type = "excel"
    /\ chunk_documents' = SplitExcelDocument(document_data.pages, chunk_size)
    /\ pc' = "split_done"
    /\ UNCHANGED <<document_data, chunk_size, text_chunks>>
    /\ UNCHANGED <<aggVars, rerankVars, parseVars, retrieveVars, flowVars>>

\* split_document of a pptx document
SplitPptx ==
    /\ pc = "split"
    /\ document_data.document_type = "pptx"
    /\ chunk_documents' = SplitPptxDocument(document_data.pages, chunk_size)
    /\ pc' = "split_done"
    /\ UNCHANGED <<document_data, chunk_size, text_chunks>>
    /\ UNCHANGED <<aggVars, rerankVars, parseVars, retrieveVars, flowVars>>

NextSplit ==
    SplitNothing \/ SplitCombinedText \/ EmitCrossPageChunks \/ SplitExcel \/ SplitPptx

SpecSplit == InitSplit /\ [][NextSplit]_vars

\* The pages of the combined text that the interval [s, e) intersects
PagesOfInterval(s, e) ==
    LET page_boundaries == CombinePagesWithMarkers(document_data.pages).page_boundaries
    IN  {b.page : b \in {c \in Range(page_boundaries) :
                            s < c.end_pos /\ e > c.start_pos}}

\* The pages a chunk document records: page plus page_range
RecordedPages(d) == {d.page} \cup Range(d.page_range)

\* C14: every chunk emitted by the cross-page splitter records exactly the
\* pages whose interval in the combined text intersects the interval its
\* window occupies there.
C14_CoverageIsWindowPages ==
    pc = "split_done" /\ IsCrossPage(document_data) =>
        \A i \in 1..Len(chunk_documents) :
            RecordedPages(chunk_documents[i]) =
                PagesOfInterval(chunk_documents[i].window.start,
                                chunk_documents[i].window.end)

\* C15: every chunk of cross-page type covers at least one page, every page
\* it records is a page of the document, and its primary page is the
\* smallest page it records.
C15_CoverageWithinDocument ==
    pc = "split_done" /\ IsCrossPage(document_data) =>
        \A i \in 1..Len(chunk_documents) :
            LET d == chunk_documents[i]
            IN  /\ RecordedPages(d) # {}
                /\ RecordedPages(d) \subseteq
                      {document_data.pages[k].page : k \in 1..Len(document_data.pages)}
                /\ \A p \in RecordedPages(d) : d.page <= p
                /\ d.spans_pages <=> Cardinality(RecordedPages(d)) > 1

C15_Witness ==
    /\ pc = "split_done"
    /\ IsCrossPage(document_data)
    /\ \E i \in 1..Len(chunk_documents) :
          /\ chunk_documents[i].spans_pages
          /\ chunk_documents[i].page_range = <<FirstPage, FirstPage + 1>>
    /\ \E i \in 1..Len(chunk_documents) : ~chunk_documents[i].spans_pages

ChunkPages(d) ==
    IF d.content_type = "cross_page_text" THEN RecordedPages(d) ELSE {d.page}

\* A page of the document under split has text
HasText(page) ==
    IF IsCrossPage(document_data) THEN ~IsBlankText(page.text)
    ELSE ~IsBlankLines(page.text)

\* C17: for every document type and chunk_size, every page that has text
\* gets at least one chunk with non-empty content, and no chunk at all is
\* emitted only when no page has text.
C17_NoSilentLoss ==
    pc = "split_done" =>
        /\ \A k \in 1..Len(document_data.pages) :
              HasText(document_data.pages[k]) =>
                  \E i \in 1..Len(chunk_documents) :
                      /\ document_data.pages[k].page \in ChunkPages(chunk_documents[i])
                      /\ chunk_documents[i].page_content # <<>>
        /\ (chunk_documents = <<>> =>
               \A k \in 1..Len(document_data.pages) : ~HasText(document_data.pages[k]))

\* a sheet whose header block alone is longer than chunk_size
C17_Witness ==
    /\ pc = "split_done"
    /\ document_data.document_type = "excel"
    /\ chunk_size < SheetLineSize + HeadersLineSize
    /\ Len(document_data.pages) = MaxPages
    /\ \A k \in 1..Len(document_data.pages) : HasText(document_data.pages[k])
    /\ Len(chunk_documents) = MaxPages

\* The text of the page a chunk document was cut from
TextOfPage(page_num) ==
    document_data.pages[CHOOSE k \in 1..Len(document_data.pages) :
                            document_data.pages[k].page = page_num].text

\* C18: every chunk emitted for a spreadsheet page begins with the Sheet:
\* and Headers: lines of its sheet and holds at least one data row, and
\* nothing but data rows, after them.
C18_HeaderAndRows ==
    pc = "split_done" /\ document_data.document_type = "excel" =>
        \A i \in 1..Len(chunk_documents) :
            LET d == chunk_documents[i]
                header == SelectSeq(TextOfPage(d.page),
                              LAMBDA l : l.starts = "Sheet:" \/ l.starts = "Headers:")
            IN  /\ Len(d.page_content) > Len(header) + 1
                /\ SubSeq(d.page_content, 1, Len(header)) = header
                /\ d.page_content[Len(header) + 1] = EmptyLine
                /\ \A j \in (Len(header) + 2)..Len(d.page_content) :
                      d.page_content[j].starts = "Row"

\* a sheet cut into several chunks
C18_Witness ==
    /\ pc = "split_done"
    /\ document_data.document_type = "excel"
    /\ \E i \in 1..Len(chunk_documents) :
          /\ chunk_documents[i].chunk = 2
          /\ chunk_documents[i].total_chunks = MaxRows
          /\ chunk_documents[i].has_headers

\* C19: on a slide every table or chart block is the only block of the one
\* chunk that holds it.
C19_TableChartAlone ==
    pc = "split_done" /\ document_data.document_type = "pptx" =>
        \A k \in 1..Len(document_data.pages) :
            LET slide == document_data.pages[k]
            IN  \A g \in Range(slide.text) :
                    g.starts \in {"Table:", "Chart:"} =>
                        /\ Cardinality({i \in 1..Len(chunk_documents) :
                                           /\ chunk_documents[i].page = slide.page
                                           /\ g \in Range(chunk_documents[i].page_content)}) = 1
                        /\ \A i \in 1..Len(chunk_documents) :
                              (/\ chunk_documents[i].page = slide.page
                               /\ g \in Range(chunk_documents[i].page_content))
                                  => chunk_documents[i].page_content = <<g>>

\* text, then a table, then text on one slide, under a chunk_size that
\* would hold all three
C19_Witness ==
    /\ pc = "split_done"
    /\ document_data.document_type = "pptx"
    /\ chunk_size = DefaultChunkSize
    /\ Len(document_data.pages) = 1
    /\ Len(document_data.pages[1].text) = 3
    /\ document_data.pages[1].text[1].starts = "Text Frame:"
    /\ document_data.pages[1].text[2].starts = "Table:"
    /\ document_data.pages[1].text[3].starts = "other"
    /\ Len(chunk_documents) = 3


-----------------------------------------------------------------------------
(* Order of the aggregated candidates *)

\* The positions, in input order, of the hits that are the first of their
\* page set
FirstHits ==
    SelectSeq([h \in 1..Len(chunk_results) |-> h], LAMBDA h : FirstHitLike(h) = h)

\* C20: the candidates returned by aggregate_to_parent_pages are the hits
\* that come first for their page set, one candidate per such hit and in the
\* order of these hits in the input.
C20_InputOrderKept ==
    pc = "aggregated" =>
        /\ Len(parent_results) = Len(FirstHits)
        /\ \A j \in 1..Len(parent_results) :
              LET hit == chunk_results[FirstHits[j]]
              IN  /\ CandidatePages(parent_results[j]) = HitPages(hit)
                  /\ parent_results[j].metadata = hit.metadata
                  /\ parent_results[j].distance = hit.distance
                  /\ parent_results[j].source_file = hit.source_file

\* Hits on page 4 (distance 0.3), page 3 (distance 0.1) and page 4 again
\* give the candidates of page 4 and page 3, in this order.
C20_Witness ==
    /\ pc = "aggregated"
    /\ Len(chunk_results) = 3
    /\ HitPages(chunk_results[1]) = {4} /\ chunk_results[1].distance = 3
    /\ HitPages(chunk_results[2]) = {3} /\ chunk_results[2].distance = 1
    /\ HitPages(chunk_results[3]) = {4}
    /\ Len(parent_results) = 2
    /\ parent_results[1].page = 4
    /\ parent_results[2].page = 3


-----------------------------------------------------------------------------
(* Candidate text *)

\* The pages a candidate covers, in the order aggregate_to_parent_pages
\* recorded them.
CandidateCoverage(c) == IF c.spans_pages THEN c.page_range ELSE <<c.page>>

C22_HitsInIndexOrder ==
    (pc = "aggregate" /\ vectorstore.attached) =>
        LET returned == Take(vectorstore.index, llm_reranking_sample_size)
        IN  /\ Len(chunk_results) = Len(returned)
            /\ \A i \in 1..Len(returned) :
                  LET doc == returned[i]
                      hit == chunk_results[i]
                  IN  /\ hit.text = doc.page_content
                      /\ hit.distance = doc.score
                      /\ hit.metadata = doc.metadata
                      /\ hit.page = (IF doc.metadata.has_page THEN doc.metadata.page ELSE 0)
                      /\ hit.chunk = (IF doc.metadata.has_chunk THEN doc.metadata.chunk ELSE 1)

\* The index returned a document without page and chunk attributes between
\* two complete ones; the three hits are in index order and the middle one
\* has page 0 and chunk 1.
C22_Witness ==
    /\ pc = "aggregate"
    /\ Len(chunk_results) = 3
    /\ vectorstore.index[2] = BareDocument
    /\ chunk_results[2].page = 0
    /\ chunk_results[2].chunk = 1
    /\ chunk_results[1].page = 4
    /\ chunk_results[3].page = 3
    /\ chunk_results[1].distance < chunk_results[3].distance


-----------------------------------------------------------------------------
(* The thread pool of rerank_documents *)

\* What rerank_documents returns when the batches run one after the other
\* in batch order and the judge gives batch b the scores scores[b]
SequentialRerank(scores) ==
    LET nb == NumBatches(Len(documents), documents_batch_size)
    IN  SortByCombinedScore(
            ExtendAll([b \in 1..nb |->
                ProcessBatch(BatchOf(documents, documents_batch_size, b),
                             scores[b], llm_weight).results]),
            <<>>)

\* C23: reranking is reproducible.  The sequence rerank_documents returns is
\* determined by the candidate list, the batch size, the weight and the
\* scores the judge gives each batch: it is the sequence of the sequential
\* run, whichever batches the workers finished first.  Two executions with a
\* judge that is a function of the batch therefore return the same sequence.
C23_Reproducible ==
    pc = "done" /\ documents # <<>> => all_results = SequentialRerank(llm_scores)

\* Three candidates in two batches; the second batch finished before the
\* first, the judge scored the batches differently, and the call returned.
C23_Witness ==
    /\ pc = "done"
    /\ out_of_order
    /\ Len(batch_results) = 2
    /\ Len(all_results) = 3
    /\ llm_scores[1][1] # llm_scores[2][1]


\* The batches whose result slot a step writes
WrittenBatches ==
    {a \in 1..Len(batch_results) : batch_results'[a] # batch_results[a]}

ScoreKeys == {"llm_score", "relevance_score", "combined_score"}

\* C24: the batch executions share no mutable state.  A step of the pool
\* writes the result slot of one batch only, a slot is written once, every
\* record in it is a copy of the candidate at the same position of that
\* batch with the three score keys added, and the candidate records given
\* to rerank_documents keep their keys and values throughout the call.
C24_NoSharedMutableState ==
    [][pc = "pool" =>
        /\ documents' = documents
        /\ Cardinality(WrittenBatches) <= 1
        /\ \A a \in WrittenBatches :
              /\ batch_results[a].status = "pending"
              /\ \A k \in 1..Len(batch_results'[a].results) :
                    LET doc == documents[(a - 1) * documents_batch_size + k]
                        rec == batch_results'[a].results[k]
                    IN  /\ DOMAIN rec = DOMAIN doc \cup ScoreKeys
                        /\ DOMAIN doc \cap ScoreKeys = {}
                        /\ \A f \in DOMAIN doc : rec[f] = doc[f]]_vars

\* Two batches have been scored, the second before the first, and the call
\* has returned scored records while the candidates carry no score key.
C24_Witness ==
    /\ pc = "done"
    /\ out_of_order
    /\ Len(batch_results) = 2
    /\ \A i \in 1..Len(all_results) : ScoreKeys \subseteq DOMAIN all_results[i]
    /\ \A i \in 1..Len(documents) : DOMAIN documents[i] \cap ScoreKeys = {}
    /\ Len(documents) = Len(all_results)


-----------------------------------------------------------------------------
(* Ingestion *)

\* The positions of the chunks of file i in the chunk list, when every
\* parsed file before it has contributed all its chunks
ChunksBefore(i) ==
    LET RECURSIVE sum(_)
        sum(j) == IF j = 0 THEN 0
                  ELSE sum(j-1) + (IF user_files[j].parsed THEN Len(user_files[j].chunks) ELSE 0)
    IN  sum(i - 1)

TotalChunks ==
    LET RECURSIVE sum(_)
        sum(j) == IF j = 0 THEN 0
                  ELSE sum(j-1) + (IF user_files[j].parsed THEN Len(user_files[j].chunks) ELSE 0)
    IN  sum(Len(user_files))

\* C25: ingestion tolerates partial failure.  For a list of paths of which
\* at least one parses, ingest_node finishes without an error; the chunk
\* list holds the chunks of every parsed file, all of them, file after file
\* in input order, and nothing else, so a file that is missing, failed or
\* raised contributes no chunk.  The error "Document parsing failed for all
\* files" is raised only when no file parsed.
C25_PartialFailureTolerated ==
    (user_files # <<>> /\ pc # "files") =>
        IF \E i \in 1..Len(user_files) : user_files[i].parsed
        THEN /\ pc # "exit"
             /\ failure # "Document parsing failed for all files"
             /\ Len(state_docs) = TotalChunks
             /\ \A i \in 1..Len(user_files) :
                   user_files[i].parsed =>
                       \A k \in 1..Len(user_files[i].chunks) :
                           state_docs[ChunksBefore(i) + k]
                               = IngestedChunk(user_files[i], user_files[i].chunks[k])
        ELSE /\ pc = "exit"
             /\ failure = "Document parsing failed for all files"
             /\ state_docs = <<>>

\* Of two files the first raised after one chunk had been made and the
\* second parsed into two chunks: ingestion went on and the chunk list is
\* the two chunks of the second file.
C25_Witness ==
    /\ pc = "embed"
    /\ Len(user_files) = 2
    /\ user_files[1].cause = "raised"
    /\ Len(user_files[1].chunks) = 1
    /\ user_files[2].parsed
    /\ Len(user_files[2].chunks) = 2
    /\ state_docs = user_files[2].chunks


-----------------------------------------------------------------------------
(* Page markers in chunk content *)

\* The symbols that only a page-boundary marker brings into the combined
\* text: the page texts hold letters and whitespace.
IsMarkerSymbol(symbol) == symbol \in {"--- PAGE ", " ---"} \/ IsNumber(symbol)

\* C26: the page_content of every chunk emitted by the cross-page splitter
\* holds no page-boundary marker and no fragment of one, wherever the window
\* of the chunk starts and ends in the combined text.
C26_NoMarkerInContent ==
    (pc = "split_done" /\ IsCrossPage(document_data)) =>
        \A i \in 1..Len(chunk_documents) :
            \A k \in 1..Len(chunk_documents[i].page_content) :
                ~IsMarkerSymbol(chunk_documents[i].page_content[k])


-----------------------------------------------------------------------------
(* Row groups of a sheet *)

\* The data rows a chunk holds and the chunks cut from a page
RowsOfChunk(d) == SelectSeq(d.page_content, LAMBDA l : l.starts = "Row")
ChunksOfPage(page_num) == SelectSeq(chunk_documents, LAMBDA d : d.page = page_num)

\* C27: the data rows of a sheet are distributed over its chunks in order,
\* each row in exactly one chunk and no chunk without a row.  A new group is
\* started exactly when the current group is not empty and the next row
\* would make len(header block) + the sum of the group's row lengths exceed
\* chunk_size: within a group every row after the first kept that length at
\* or under chunk_size, and the first row of the next group would have
\* exceeded it.
C27_RowsGroupedInOrder ==
    (pc = "split_done" /\ document_data.document_type = "excel") =>
        \A p \in 1..Len(document_data.pages) :
            LET lines == document_data.pages[p].text
                header_len == JoinedLength(SheetInfo(lines))
                docs == ChunksOfPage(document_data.pages[p].page)
                rows(i) == RowsOfChunk(docs[i])
            IN  /\ ExtendAll([i \in 1..Len(docs) |-> rows(i)]) = DataRows(lines)
                /\ \A i \in 1..Len(docs) :
                      /\ rows(i) # <<>>
                      /\ \A n \in 2..Len(rows(i)) :
                            header_len + SumSizes(SubSeq(rows(i), 1, n)) <= chunk_size
                /\ \A i \in 1..(Len(docs) - 1) :
                      header_len + SumSizes(rows(i)) + rows(i+1)[1].size > chunk_size

\* A sheet of three rows cut into a chunk of two rows and a chunk of one
C27_Witness ==
    /\ pc = "split_done"
    /\ document_data.document_type = "excel"
    /\ Len(chunk_documents) = 2
    /\ Len(RowsOfChunk(chunk_documents[1])) = 2
    /\ Len(RowsOfChunk(chunk_documents[2])) = 1
    /\ chunk_documents[2].page = chunk_documents[1].page


-----------------------------------------------------------------------------
(* Malformed distances *)

\* Distances a corrupted or foreign index may hand over, in tenths:
\* -2.0 and -1.0
MalformedDistances == {-20, -10}

InitMalformed ==
    /\ InitRerank(MalformedDistances)
    /\ documents_batch_size = 1
    /\ llm_weight = 7

SpecMalformed == InitMalformed /\ [][Next]_vars

\* C28: the similarity and fusion step tolerates malformed distances.  For
\* every numeric distance, negative ones included, the scoring of a batch
\* completes without raising and gives every scored candidate a similarity
\* within [0,1], and rerank_documents is not aborted.
C28_MalformedDistanceTolerated ==
    /\ pc # "raised"
    /\ \A b \in 1..Len(batch_results) : batch_results[b].status # "raised"
    /\ \A i \in 1..Len(vector_similarity) :
          vector_similarity[i] # <<>> =>
              /\ vector_similarity[i][2] > 0
              /\ 0 <= vector_similarity[i][1]
              /\ vector_similarity[i][1] <= vector_similarity[i][2]


-----------------------------------------------------------------------------
(* Pages of several documents *)

\* C29: when several documents are ingested, the text of every candidate is
\* the text of the covered pages of the document its source_file names:
\* every segment of the text holds the text that this document has for the
\* page, never the text another document has under the same page number.
C29_PagesKeptApart ==
    pc = "aggregated" =>
        \A i \in 1..Len(parent_results) :
            LET c == parent_results[i]
                cov == CandidateCoverage(c)
            IN  (\E k \in 1..Len(parsed_reports) : parsed_reports[k].source_file = c.source_file)
                => IF Len(cov) = 1
                   THEN c.text[1].content = OwnPageText(parsed_reports, c.source_file, cov[1])
                   ELSE \A k \in 1..Len(c.text) :
                           c.text[k].content =
                               OwnPageText(parsed_reports, c.source_file, c.text[k].label)


-----------------------------------------------------------------------------
(* The page index of a run of the main program *)

\* The pages an entry of the vector index refers to
DocumentPages(doc) ==
    IF doc.metadata.spans_pages /\ doc.metadata.has_page_range
    THEN Range(doc.metadata.page_range)
    ELSE {IF doc.metadata.has_page THEN doc.metadata.page ELSE 0}

\* A candidate text with something to read in it
HasContent(text) == \E k \in 1..Len(text) : ~IsBlank(text[k].content)

\* C30: in every run of the main program, whenever a question has been
\* answered, the page index of the aggregator holds every page an entry of
\* the attached vector index refers to, and every candidate that covers a
\* page with text in its document has text itself; whether the vector index
\* was built in this session or loaded from disk at start-up.
C30_PageIndexComplete ==
    pc = "answered" =>
        /\ \A k \in 1..Len(vectorstore.index) :
              DocumentPages(vectorstore.index[k])
                  \subseteq DOMAIN BuildPageContentMap(parsed_reports)
        /\ \A i \in 1..Len(parent_results) :
              LET c == parent_results[i]
              IN  (\E pn \in Range(CandidateCoverage(c)) :
                       ~IsBlank(OwnPageText(Reports, c.source_file, pn)))
                  => HasContent(c.text)

=============================================================================
